---- MODULE Spec2Model ----
(***************************************************************************)
(* Kitty Voice Controller: the command router, the session registry, the   *)
(* controller's command path, the output monitor, the summarizer and the   *)
(* readiness tests, the push-to-talk hotkey with its recorder, and the     *)
(* threads of run() around the lock of the speech sink.                    *)
(*                                                                         *)
(* Strings are sequences of one-character strings, so that lower(),        *)
(* strip(), split(), startswith() and the prefix regular expression are    *)
(* computed character by character as the Python code computes them.       *)
(* A spoken message is the concatenation the f-string builds: the literal  *)
(* pieces of the template are kept as single elements, the interpolated    *)
(* values character by character.                                          *)
(***************************************************************************)
EXTENDS Naturals, Sequences, FiniteSets, TLC

VARIABLES
    projects,   \* Config.projects: sequence (dict order) of [name, voice_alias]
    commands,   \* Config.commands: sequence (dict order) of [name, send]
    windows,    \* KittyController.windows: project names, in insertion order
    muted,      \* VoiceController._muted
    running,    \* VoiceController._running
    volume,     \* Config.voice.volume, in tenths
    pc,         \* position of the main thread in run()/start()/stop()
    last,       \* the most recent call: its input, its result, the state it started from
    ops,        \* the calls the most recent operation made on sessions and on the speech sink
    announce_completion,  \* Config.summary.announce_completion
    _last_outputs,        \* VoiceController._last_outputs: the snapshot stored per session
    monitor,    \* position of the output monitor thread in _monitor_outputs
    poll,       \* the most recent iteration of the monitor's loop over the sessions
    speaking,   \* position of each thread inside VoiceOutputHandler.speak
    _lock,      \* VoiceOutputHandler._lock: the thread that holds it, "" when it is free
    ptt,        \* PushToTalkHandler, the recorder it drives and the key events of its listener
    applied     \* a text and a summary configuration, and what the text functions make of them

vars == <<projects, commands, windows, muted, running, volume, pc, last, ops,
          announce_completion, _last_outputs, monitor, poll, speaking, _lock,
          ptt, applied>>

\* what the output monitor works on
monitorVars == <<announce_completion, _last_outputs, monitor, poll>>
\* the inside of the speech sink
sinkVars == <<speaking, _lock>>
\* the hotkey and the recorder
keyVars == <<ptt>>
\* the text functions on their own
textVars == <<applied>>

----------------------------------------------------------------------------
(* Characters and the str methods the router uses *)

LowerOf ==
    ("A" :> "a") @@ ("B" :> "b") @@ ("C" :> "c") @@ ("D" :> "d") @@ ("E" :> "e") @@
    ("F" :> "f") @@ ("G" :> "g") @@ ("H" :> "h") @@ ("I" :> "i") @@ ("J" :> "j") @@
    ("K" :> "k") @@ ("L" :> "l") @@ ("M" :> "m") @@ ("N" :> "n") @@ ("O" :> "o") @@
    ("P" :> "p") @@ ("Q" :> "q") @@ ("R" :> "r") @@ ("S" :> "s") @@ ("T" :> "t") @@
    ("U" :> "u") @@ ("V" :> "v") @@ ("W" :> "w") @@ ("X" :> "x") @@ ("Y" :> "y") @@
    ("Z" :> "z")

\* the characters str.isspace() holds of, among those the model uses
Whitespace == {" ", "\t", "\n"}

IsSpace(c) == c \in Whitespace

\* str.lower()
lower(s) == [i \in 1..Len(s) |-> IF s[i] \in DOMAIN LowerOf THEN LowerOf[s[i]] ELSE s[i]]

\* number of whitespace characters at the start of s
LeadingSpaces(s) ==
    IF \A i \in 1..Len(s) : IsSpace(s[i]) THEN Len(s)
    ELSE (CHOOSE i \in 1..Len(s) : ~IsSpace(s[i]) /\ \A j \in 1..(i - 1) : IsSpace(s[j])) - 1

\* number of whitespace characters at the end of s
TrailingSpaces(s) ==
    IF \A i \in 1..Len(s) : IsSpace(s[i]) THEN Len(s)
    ELSE Len(s) - (CHOOSE i \in 1..Len(s) : ~IsSpace(s[i]) /\ \A j \in (i + 1)..Len(s) : IsSpace(s[j]))

\* str.strip()
strip(s) ==
    IF \A i \in 1..Len(s) : IsSpace(s[i]) THEN << >>
    ELSE SubSeq(s, LeadingSpaces(s) + 1, Len(s) - TrailingSpaces(s))

\* str.startswith(prefix)
startswith(s, prefix) == Len(prefix) <= Len(s) /\ SubSeq(s, 1, Len(prefix)) = prefix

\* str.endswith(suffix)
endswith(s, suffix) ==
    Len(suffix) <= Len(s) /\ SubSeq(s, Len(s) - Len(suffix) + 1, Len(s)) = suffix

\* c in s
contains(s, c) == \E i \in 1..Len(s) : s[i] = c

\* s.find(c) as a 1-based index (0 when absent)
find(s, c) ==
    IF contains(s, c) THEN CHOOSE i \in 1..Len(s) : s[i] = c /\ \A j \in 1..(i - 1) : s[j] # c
    ELSE 0

\* s.find(sub) for a string sub, as a 1-based index (0 when absent)
find_str(s, sub) ==
    LET at(i) == SubSeq(s, i, i + Len(sub) - 1) = sub
        starts == 1..(Len(s) - Len(sub) + 1)
    IN  IF \E i \in starts : at(i)
        THEN CHOOSE i \in starts : at(i) /\ \A j \in 1..(i - 1) : ~at(j)
        ELSE 0

\* sub in s
has_str(s, sub) == find_str(s, sub) > 0

\* s[n:] of Python (n counted from 0)
slice_from(s, n) == SubSeq(s, n + 1, Len(s))

\* x in list
InList(x, list) == \E i \in 1..Len(list) : list[i] = x

----------------------------------------------------------------------------
(* String constants *)

s_status == <<"s","t","a","t","u","s">>
s_mute == <<"m","u","t","e">>
s_unmute == <<"u","n","m","u","t","e">>
s_louder == <<"l","o","u","d","e","r">>
s_softer == <<"s","o","f","t","e","r">>
s_quieter == <<"q","u","i","e","t","e","r">>
s_shut_down == <<"s","h","u","t"," ","d","o","w","n">>
s_shutdown == <<"s","h","u","t","d","o","w","n">>
s_stop_all == <<"s","t","o","p"," ","a","l","l">>
s_help == <<"h","e","l","p">>
s_stop == <<"s","t","o","p">>
s_read == <<"r","e","a","d">>
s_focus == <<"f","o","c","u","s">>

\* ParsedCommand.target = None
None == <<"None">>

----------------------------------------------------------------------------
(* config.py *)

\* ProjectConfig.get_all_names
get_all_names(project) ==
    <<lower(project.name)>> \o
    [i \in 1..Len(project.voice_alias) |-> lower(project.voice_alias[i])]

\* the loop of Config.find_project_by_voice from the i-th project on
RECURSIVE find_project_from(_, _)
find_project_from(spoken_lower, i) ==
    IF i > Len(projects) THEN 0
    ELSE IF InList(spoken_lower, get_all_names(projects[i])) THEN i
    ELSE find_project_from(spoken_lower, i + 1)

\* a plausible slip: an alias table built by overwriting, so that the last
\* registration of a name wins
find_project_last_wins(spoken_name) ==
    LET spoken_lower == strip(lower(spoken_name))
        hit(i) == InList(spoken_lower, get_all_names(projects[i]))
    IN  IF \E i \in 1..Len(projects) : hit(i)
        THEN CHOOSE i \in 1..Len(projects) : hit(i) /\ \A j \in (i + 1)..Len(projects) : ~hit(j)
        ELSE 0

\* Config.find_project_by_voice: the index of the project found, 0 for None
find_project_by_voice(spoken_name) ==
    find_project_from(strip(lower(spoken_name)), 1)

----------------------------------------------------------------------------
(* controller.py: the router *)

\* VoiceController.GLOBAL_COMMANDS, in dict order
GLOBAL_COMMANDS == <<
    [phrase |-> s_status,    method |-> "get_all_status"],
    [phrase |-> s_mute,      method |-> "toggle_mute"],
    [phrase |-> s_unmute,    method |-> "toggle_mute"],
    [phrase |-> s_louder,    method |-> "increase_volume"],
    [phrase |-> s_softer,    method |-> "decrease_volume"],
    [phrase |-> s_quieter,   method |-> "decrease_volume"],
    [phrase |-> s_shut_down, method |-> "shutdown"],
    [phrase |-> s_shutdown,  method |-> "shutdown"],
    [phrase |-> s_stop_all,  method |-> "stop_all"],
    [phrase |-> s_help,      method |-> "speak_help"] >>

\* VoiceController.WINDOW_COMMANDS
WINDOW_COMMANDS == <<
    [verb |-> s_stop,  method |-> "send_interrupt"],
    [verb |-> s_read,  method |-> "read_output"],
    [verb |-> s_focus, method |-> "focus_window"] >>

ParsedCommand(target, command, is_global) ==
    [target |-> target, command |-> command, is_global |-> is_global]

\* the loop over GLOBAL_COMMANDS in _parse_command: index of the first phrase matched, 0 for none
RECURSIVE global_from(_, _)
global_from(text_lower, i) ==
    IF i > Len(GLOBAL_COMMANDS) THEN 0
    ELSE IF startswith(text_lower, GLOBAL_COMMANDS[i].phrase)
            \/ text_lower = GLOBAL_COMMANDS[i].phrase THEN i
    ELSE global_from(text_lower, i + 1)

\* re.match(rf"^{re.escape(name)}\s+", text_lower).end(), 0 when there is no match
match_end(name, text_lower) ==
    IF startswith(text_lower, name) /\ Len(text_lower) > Len(name)
       /\ IsSpace(text_lower[Len(name) + 1])
    THEN Len(name) + LeadingSpaces(slice_from(text_lower, Len(name)))
    ELSE 0

\* the nested loops of the prefix form, from the k-th name of the i-th project on
RECURSIVE prefix_from(_, _, _, _)
prefix_from(text, text_lower, i, k) ==
    IF i > Len(projects) THEN ParsedCommand(None, text, FALSE)
    ELSE IF k > Len(get_all_names(projects[i])) THEN prefix_from(text, text_lower, i + 1, 1)
    ELSE LET end == match_end(get_all_names(projects[i])[k], text_lower)
         IN  IF end > 0
             THEN ParsedCommand(projects[i].name, strip(slice_from(text, end)), FALSE)
             ELSE prefix_from(text, text_lower, i, k + 1)

\* a plausible slip: the utterance is split at its last colon (rsplit)
colon_last_or_prefix(text, text_lower) ==
    LET colon == IF contains(text, ":")
                 THEN CHOOSE i \in 1..Len(text) :
                          text[i] = ":" /\ \A j \in (i + 1)..Len(text) : text[j] # ":"
                 ELSE 0
        project == find_project_by_voice(strip(SubSeq(text, 1, colon - 1)))
    IN  IF colon > 0 /\ project > 0
        THEN ParsedCommand(projects[project].name, strip(slice_from(text, colon)), FALSE)
        ELSE prefix_from(text, text_lower, 1, 1)

\* the colon form: the ParsedCommand it returns, or the prefix form and the fallback
colon_or_prefix(text, text_lower) ==
    LET colon == find(text, ":")
        target_phrase == strip(SubSeq(text, 1, colon - 1))
        command == strip(slice_from(text, colon))
        project == find_project_by_voice(target_phrase)
    IN  IF colon > 0 /\ project > 0
        THEN ParsedCommand(projects[project].name, command, FALSE)
        ELSE prefix_from(text, text_lower, 1, 1)

\* a plausible slip: the project forms are tried before the global phrases
parse_projects_first(text) ==
    LET text_lower == strip(lower(text))
        p == colon_or_prefix(text, text_lower)
        g == global_from(text_lower, 1)
    IN  IF p.target # None THEN p
        ELSE IF g > 0 THEN ParsedCommand(None, GLOBAL_COMMANDS[g].phrase, TRUE)
        ELSE p

\* VoiceController._parse_command
_parse_command(text) ==
    LET text_lower == strip(lower(text))
        g == global_from(text_lower, 1)
    IN  IF g > 0 THEN ParsedCommand(None, GLOBAL_COMMANDS[g].phrase, TRUE)
        ELSE colon_or_prefix(text, text_lower)

----------------------------------------------------------------------------
(* summarizer.py, as far as the command path uses it *)

\* SummaryConfig.max_spoken_length
max_spoken_length == 150

\* SummaryConfig.strategy of the configurations modelled (first_last and smart are
\* not used by them)
strategy == "full"

\* str.split(): the maximal runs of non-whitespace characters
RECURSIVE split_words(_)
split_words(s) ==
    LET t == slice_from(s, LeadingSpaces(s))
        n == IF \E i \in 1..Len(t) : IsSpace(t[i])
             THEN (CHOOSE i \in 1..Len(t) : IsSpace(t[i]) /\ \A j \in 1..(i - 1) : ~IsSpace(t[j])) - 1
             ELSE Len(t)
    IN  IF t = << >> THEN << >>
        ELSE <<SubSeq(t, 1, n)>> \o split_words(slice_from(t, n))

\* sep.join(parts)
RECURSIVE join(_, _)
join(sep, parts) ==
    IF parts = << >> THEN << >>
    ELSE IF Len(parts) = 1 THEN parts[1]
    ELSE parts[1] \o sep \o join(sep, Tail(parts))

\* OutputSummarizer._truncate_to_words
_truncate_to_words(text, max_words) ==
    LET words == split_words(text)
    IN  IF Len(words) <= max_words THEN text
        ELSE join(<<" ">>, SubSeq(words, 1, max_words)) \o <<".", ".", ".">>

\* OutputSummarizer.ERROR_PATTERNS, lowercased as re.IGNORECASE compares them
ERROR_PATTERNS == <<
    <<"e","r","r","o","r",":">>, <<"e","r","r","o","r",":">>, <<"e","r","r","o","r">>,
    <<"f","a","i","l","e","d">>, <<"f","a","i","l","e","d">>, <<"f","a","i","l","e","d">>,
    <<"e","x","c","e","p","t","i","o","n">>, <<"e","x","c","e","p","t","i","o","n">>,
    <<"t","r","a","c","e","b","a","c","k">>, <<"t","r","a","c","e","b","a","c","k">>,
    <<"p","a","n","i","c",":">>, <<"p","a","n","i","c">>,
    <<"f","a","t","a","l",":">>, <<"f","a","t","a","l",":">> >>

\* the literal patterns of OutputSummarizer.QUESTION_PATTERNS, lowercased
QUESTION_LITERALS == <<
    <<"d","o"," ","y","o","u"," ","w","a","n","t">>,
    <<"w","o","u","l","d"," ","y","o","u"," ","l","i","k","e">>,
    <<"s","h","o","u","l","d"," ","i">>,
    <<"s","h","a","l","l"," ","i">>,
    <<"p","l","e","a","s","e"," ","c","o","n","f","i","r","m">>,
    <<"[","y","/","n","]">>, <<"[","y","/","n","]">>,
    <<"[","y","e","s","/","n","o","]">> >>

\* OutputSummarizer._has_error
_has_error(text) ==
    \E k \in 1..Len(ERROR_PATTERNS) : has_str(lower(text), ERROR_PATTERNS[k])

\* re.search(r"\?\s*$", text, re.MULTILINE): a question mark, then whitespace up to the
\* end of the text or to a position right before a newline
question_mark_at_end(text) ==
    \E i \in 1..Len(text) :
        /\ text[i] = "?"
        /\ \E k \in i..Len(text) :
             /\ \A j \in (i + 1)..k : IsSpace(text[j])
             /\ k = Len(text) \/ text[k + 1] = "\n"

\* re.search(r"Enter .* to continue", text, re.IGNORECASE): the dot matches no newline
enter_to_continue(text) ==
    LET t == lower(text)
        enter == <<"e","n","t","e","r"," ">>
        to_continue == <<" ","t","o"," ","c","o","n","t","i","n","u","e">>
    IN  \E i \in 1..(Len(t) - Len(enter) + 1) :
        \E k \in (i + Len(enter))..(Len(t) - Len(to_continue) + 1) :
            /\ SubSeq(t, i, i + Len(enter) - 1) = enter
            /\ SubSeq(t, k, k + Len(to_continue) - 1) = to_continue
            /\ \A j \in (i + Len(enter))..(k - 1) : t[j] # "\n"

\* OutputSummarizer._has_question
_has_question(text) ==
    \/ question_mark_at_end(text)
    \/ \E k \in 1..Len(QUESTION_LITERALS) : has_str(lower(text), QUESTION_LITERALS[k])
    \/ enter_to_continue(text)

\* OutputSummarizer.summarize: the text of the Summary
summarize_text(text) ==
    IF text = << >> THEN <<"No output">>
    ELSE CASE strategy = "full" -> _truncate_to_words(text, max_spoken_length)

----------------------------------------------------------------------------
(* kitty.py: the operations on a session, as entries of the log ops *)

\* the control byte "\x03"
ETX == "^C"

\* what a session may show; the empty text is also what a failed get_text returns
Screens ==
    { << >>,
      <<">", " ">>,
      <<"r", "u", "n", "\n">>,
      <<"a", "$", "\n", " ", "\n">>,
      <<"o", "k", "\n", ">", " ", "x">> }

\* KittyWindow.send_text, with the result of the kitty call
send_text(target, text, ok) ==
    [op |-> "send_text", target |-> target, text |-> text, ok |-> ok]

\* KittyWindow.send_command
send_command(target, command, ok) == send_text(target, command \o <<"\n">>, ok)

\* KittyWindow.send_interrupt
send_interrupt(target, ok) == send_text(target, <<ETX>>, ok)

\* KittyWindow.get_text, with the text it returns
get_text(target, text) ==
    [op |-> "get_text", target |-> target, text |-> text, ok |-> TRUE]

\* KittyWindow.focus
focus(target, ok) ==
    [op |-> "focus", target |-> target, text |-> << >>, ok |-> ok]

\* a plausible slip: the readiness test of the output monitor, which also takes a
\* "> " inside the last line for the prompt and does not know the shell's "$"
is_busy_prompt(text) ==
    LET stripped == strip(text)
        nl == IF contains(stripped, "\n")
              THEN CHOOSE i \in 1..Len(stripped) :
                       stripped[i] = "\n" /\ \A j \in (i + 1)..Len(stripped) : stripped[j] # "\n"
              ELSE 0
        last_line == strip(slice_from(stripped, nl))
    IN  ~(endswith(last_line, <<">">>)
          \/ \E i \in 1..(Len(last_line) - 1) : last_line[i] = ">" /\ last_line[i + 1] = " ")

\* KittyWindow.is_busy on the text get_text returned
is_busy(text) ==
    LET stripped == strip(text)
        nl == IF contains(stripped, "\n")
              THEN CHOOSE i \in 1..Len(stripped) :
                       stripped[i] = "\n" /\ \A j \in (i + 1)..Len(stripped) : stripped[j] # "\n"
              ELSE 0
        last_line == strip(slice_from(stripped, nl))
    IN  ~(endswith(last_line, <<">">>) \/ endswith(last_line, <<"$">>))

\* a plausible slip: the project is looked up in the configuration, not among the windows
get_window_configured(project_name) ==
    \E i \in 1..Len(projects) : projects[i].name = project_name

\* KittyController.get_window(project_name) is not None
get_window(project_name) == InList(project_name, windows)

----------------------------------------------------------------------------
(* controller.py: dispatch *)

\* VoiceOutputHandler.speak as the controller calls it: one invocation of the speech
\* sink, recorded with its text; every caller makes it as its last statement, and what
\* the sink does with the text (its lock, the playback) is outside this specification
voice_output_speak(text) ==
    [op |-> "speak", target |-> None, text |-> text, ok |-> TRUE]

\* a plausible slip: the muted flag is not looked at
speak_ungated(text) == <<voice_output_speak(text)>>

\* VoiceController.speak
speak(text) == IF ~muted THEN <<voice_output_speak(text)>> ELSE << >>

\* WINDOW_COMMANDS[command_lower], "" when command_lower is no key
window_method(command_lower) ==
    IF \E i \in 1..Len(WINDOW_COMMANDS) : WINDOW_COMMANDS[i].verb = command_lower
    THEN WINDOW_COMMANDS[CHOOSE i \in 1..Len(WINDOW_COMMANDS) :
                             WINDOW_COMMANDS[i].verb = command_lower].method
    ELSE ""

\* the loop over config.commands: index of the first custom command matched, 0 for none
RECURSIVE custom_from(_, _)
custom_from(command_lower, i) ==
    IF i > Len(commands) THEN 0
    ELSE IF command_lower = lower(commands[i].name) THEN i
    ELSE custom_from(command_lower, i + 1)

\* VoiceController._read_window_output
_read_window_output(project_name, output) ==
    <<get_text(project_name, output)>> \o
    speak(project_name \o <<": ">> \o summarize_text(output))

\* VoiceController._execute_window_command: the calls it makes
_execute_window_command(project_name, command) ==
    IF ~get_window(project_name)
    THEN ops' = speak(<<"Project ">> \o project_name \o <<" is not running.">>)
    ELSE
    LET command_lower == strip(lower(command))
        method_name == window_method(command_lower)
        custom == custom_from(command_lower, 1)
    IN  IF method_name # ""
        THEN IF method_name = "send_interrupt"
             THEN \E ok \in BOOLEAN :
                    ops' = <<send_interrupt(project_name, ok)>> \o
                           speak(<<"Sent stop signal to ">> \o project_name \o <<".">>)
             ELSE IF method_name = "read_output"
             THEN \E output \in Screens : ops' = _read_window_output(project_name, output)
             ELSE IF method_name = "focus"
             THEN \E ok \in BOOLEAN : ops' = <<focus(project_name, ok)>>
             ELSE ops' = << >>
        ELSE IF custom > 0
        THEN IF commands[custom].send # << >>
             THEN \E ok \in BOOLEAN :
                    ops' = <<send_command(project_name, commands[custom].send, ok)>> \o
                           speak(<<"Running ">> \o commands[custom].name \o <<" in ">>
                                 \o project_name \o <<".">>)
             ELSE ops' = << >>
        ELSE \E ok \in BOOLEAN :
               ops' = <<send_command(project_name, command, ok)>> \o
                      speak(<<"Sent to ">> \o project_name \o <<".">>)

\* VoiceController.get_all_status
get_all_status ==
    /\ \E texts \in [1..Len(windows) -> Screens] :
         ops' = [i \in 1..Len(windows) |-> get_text(windows[i], texts[i])] \o
                speak(join(<<". ">>,
                           [i \in 1..Len(windows) |->
                              windows[i] \o <<" is ">> \o
                              (IF is_busy(texts[i]) THEN <<"busy">> ELSE <<"ready">>)]))
    /\ UNCHANGED <<muted, running, volume>>

\* a plausible slip: the announcement goes through VoiceController.speak, which is
\* silent while muted
toggle_mute_gated ==
    /\ muted' = ~muted
    /\ ops' = speak(IF ~muted THEN <<"Muted.">> ELSE <<"Unmuted.">>)
    /\ UNCHANGED <<running, volume>>

\* VoiceController.toggle_mute
toggle_mute ==
    /\ muted' = ~muted
    /\ ops' = <<voice_output_speak(IF ~muted THEN <<"Muted.">> ELSE <<"Unmuted.">>)>>
    /\ UNCHANGED <<running, volume>>

\* a plausible slip: the raised volume is not clamped
increase_volume_unclamped ==
    /\ volume' = volume + 1
    /\ ops' = speak(<<"Volume increased.">>)
    /\ UNCHANGED <<muted, running>>

\* VoiceController.increase_volume
increase_volume ==
    /\ volume' = IF volume + 1 > 10 THEN 10 ELSE volume + 1
    /\ ops' = speak(<<"Volume increased.">>)
    /\ UNCHANGED <<muted, running>>

\* VoiceController.decrease_volume
decrease_volume ==
    /\ volume' = IF volume < 2 THEN 1 ELSE volume - 1
    /\ ops' = speak(<<"Volume decreased.">>)
    /\ UNCHANGED <<muted, running>>

\* VoiceController.stop_all
stop_all ==
    /\ \E oks \in [1..Len(windows) -> BOOLEAN] :
         ops' = [i \in 1..Len(windows) |-> send_interrupt(windows[i], oks[i])] \o
                speak(<<"Stopped all sessions.">>)
    /\ UNCHANGED <<muted, running, volume>>

\* VoiceController.shutdown
shutdown ==
    /\ running' = FALSE
    /\ ops' = << >>
    /\ UNCHANGED <<muted, volume>>

\* VoiceController.speak_help
speak_help ==
    /\ ops' = speak(<<"Say a project name followed by your command. ",
                      "For example: frontend, add a login button. ",
                      "Say status to check all projects. ",
                      "Say mute or unmute to toggle voice output. ",
                      "Say shutdown to exit.">>)
    /\ UNCHANGED <<muted, running, volume>>

\* GLOBAL_COMMANDS.get(command.lower()), "" for None
global_method(command) ==
    IF \E i \in 1..Len(GLOBAL_COMMANDS) : GLOBAL_COMMANDS[i].phrase = lower(command)
    THEN GLOBAL_COMMANDS[CHOOSE i \in 1..Len(GLOBAL_COMMANDS) :
                             GLOBAL_COMMANDS[i].phrase = lower(command)].method
    ELSE ""

\* VoiceController._execute_global_command
_execute_global_command(command) ==
    LET method_name == global_method(command)
    IN  CASE method_name = "get_all_status"  -> get_all_status
          [] method_name = "toggle_mute"     -> toggle_mute
          [] method_name = "increase_volume" -> increase_volume
          [] method_name = "decrease_volume" -> decrease_volume
          [] method_name = "shutdown"        -> shutdown
          [] method_name = "stop_all"        -> stop_all
          [] method_name = "speak_help"      -> speak_help
          [] OTHER -> ops' = << >> /\ UNCHANGED <<muted, running, volume>>

\* the controller state an operation starts from
Before == [muted |-> muted, running |-> running, volume |-> volume, windows |-> windows]

NoParsed == ParsedCommand(None, << >>, FALSE)

Call(op, text, parsed, found) ==
    [op |-> op, text |-> text, parsed |-> parsed, found |-> found, before |-> Before]

\* a plausible slip: an utterance with no target is taken as a bare command for the
\* first window (what the comment in _parse_command describes)
handle_bare_command(text) ==
    LET parsed == _parse_command(text)
        target == IF parsed.target # None /\ parsed.target # << >>
                  THEN parsed.target ELSE windows[1]
    IN  /\ pc \in {"ptt", "run"}
        /\ last.op # "handle"
        /\ last' = Call("handle", text, parsed, 0)
        /\ IF parsed.is_global
           THEN _execute_global_command(parsed.command)
           ELSE _execute_window_command(target, parsed.command)
                /\ UNCHANGED <<muted, running, volume>>
        /\ UNCHANGED <<projects, commands, windows, pc>>

\* VoiceController._handle_transcription, called by the hotkey listener: the listener
\* runs its callbacks one after the other, so no call starts before the last has returned
_handle_transcription(text) ==
    LET parsed == _parse_command(text)
    IN  /\ pc \in {"ptt", "run"}
        /\ last.op # "handle"
        /\ last' = Call("handle", text, parsed, 0)
        /\ IF parsed.is_global
           THEN _execute_global_command(parsed.command)
           ELSE IF parsed.target # None /\ parsed.target # << >>
           THEN _execute_window_command(parsed.target, parsed.command)
                /\ UNCHANGED <<muted, running, volume>>
           ELSE ops' = speak(<<"I didn't understand which project you meant.">>)
                /\ UNCHANGED <<muted, running, volume>>
        /\ UNCHANGED <<projects, commands, windows, pc>>

\* the hotkey listener is back waiting for the next key event
NoCall ==
    [op |-> "idle", text |-> << >>, parsed |-> NoParsed, found |-> 0,
     before |-> [muted |-> FALSE, running |-> FALSE, volume |-> 0, windows |-> << >>]]

\* _on_hotkey_released returns to the listener
HotkeyReturn ==
    /\ last.op = "handle"
    /\ last' = NoCall
    /\ ops' = << >>
    /\ UNCHANGED <<projects, commands, windows, muted, running, volume, pc>>

----------------------------------------------------------------------------
(* controller.py: the main thread *)

\* the distinct elements of list, in the order of their first occurrence (dict insertion)
RECURSIVE dict_keys(_)
dict_keys(list) ==
    IF list = << >> THEN << >>
    ELSE LET front == dict_keys(SubSeq(list, 1, Len(list) - 1))
             x == list[Len(list)]
         IN  IF InList(x, front) THEN front ELSE Append(front, x)

\* list without the elements that do not satisfy keep
RECURSIVE filter(_, _)
filter(list, keep) ==
    IF list = << >> THEN << >>
    ELSE (IF list[1] \in keep THEN <<list[1]>> ELSE << >>) \o filter(Tail(list), keep)

\* the keys of config.projects, in order
project_names_of(table) == [i \in 1..Len(table) |-> table[i].name]

\* KittyController.launch_projects / launch_all_projects ("if project_names:" is false of
\* None and of the empty list): the keys of kitty.windows afterwards, launched being the
\* projects whose kitty process could be started
launch(project_names, launched) ==
    LET configured == {projects[i].name : i \in 1..Len(projects)}
        wanted == IF project_names = << >>
                  THEN project_names_of(projects)
                  ELSE project_names
    IN  dict_keys(filter(wanted, configured \cap launched))

\* VoiceController.start up to PushToTalkHandler.start(): ready is check_kitty_setup()
StartLaunch(ready, project_names, launched) ==
    /\ pc = "new"
    /\ last' = Call("start", << >>, NoParsed, 0)
    /\ ops' = << >>
    /\ IF ~ready
       THEN pc' = "failed" /\ UNCHANGED windows
       ELSE /\ windows' = launch(project_names, launched)
            /\ pc' = IF windows' = << >> THEN "failed" ELSE "ptt"
    /\ UNCHANGED <<projects, commands, muted, running, volume>>

\* VoiceController.start from self._running = True on
StartRun ==
    /\ pc = "ptt"
    /\ running' = TRUE
    /\ pc' = "run"
    /\ last' = Call("ready", << >>, NoParsed, 0)
    /\ ops' = speak(<<"Voice control ready. Projects: ">> \o join(<<",", " ">>, windows))
    /\ UNCHANGED <<projects, commands, windows, muted, volume>>

\* VoiceController.stop, reached from run() when the wait loop ends or is interrupted
stop ==
    /\ pc = "run"
    /\ running' = FALSE
    /\ pc' = "stopped"
    /\ last' = Call("stop", << >>, NoParsed, 0)
    /\ \E oks \in [1..Len(windows) -> BOOLEAN] :
         ops' = speak(<<"Shutting down voice control.">>) \o
                [i \in 1..Len(windows) |->
                   send_command(windows[i], <<"/", "e", "x", "i", "t">>, oks[i])]
    /\ UNCHANGED <<projects, commands, windows, muted, volume>>

----------------------------------------------------------------------------
(* summarizer.py: the three strategies *)

Letters == DOMAIN LowerOf \cup {LowerOf[c] : c \in DOMAIN LowerOf}
Digits == {"0", "1", "2", "3", "4", "5", "6", "7", "8", "9"}
\* [a-zA-Z0-9]
Alnum == Letters \cup Digits
\* [a-zA-Z0-9_\-./]
FileChars == Alnum \cup {"_", "-", ".", "/"}

\* str(n) for a natural number
RECURSIVE str(_)
str(n) ==
    LET digit(d) == <<"0", "1", "2", "3", "4", "5", "6", "7", "8", "9">>[d + 1]
    IN  IF n < 10 THEN <<digit(n)>> ELSE str(n \div 10) \o <<digit(n % 10)>>

\* s.split("\n")
RECURSIVE split_lines(_)
split_lines(s) ==
    IF ~contains(s, "\n") THEN <<s>>
    ELSE <<SubSeq(s, 1, find(s, "\n") - 1)>> \o split_lines(slice_from(s, find(s, "\n")))

\* list[-n:]
last_n(list, n) == SubSeq(list, IF Len(list) > n THEN Len(list) - n + 1 ELSE 1, Len(list))

\* list[:n]
first_n(list, n) == SubSeq(list, 1, IF Len(list) > n THEN n ELSE Len(list))

\* the end of the longest run of characters of class that starts at s[i], i - 1 for none
run_end(s, i, class) ==
    IF \E j \in i..Len(s) : s[j] \notin class
    THEN (CHOOSE j \in i..Len(s) : s[j] \notin class /\ \A k \in i..(j - 1) : s[k] \in class) - 1
    ELSE Len(s)

\* re.search(pattern + "$", s) for a literal pattern: "$" is at the end of s and right
\* before a newline that ends s
ends_with(s, suffix) == endswith(s, suffix) \/ endswith(s, suffix \o <<"\n">>)

\* a match of r"Verb .+?\." in the lowercased text t at position i: the position of
\* the full stop that ends it, 0 for no match; the dot matches no newline
sentence_end(t, verb, i) ==
    LET from == i + Len(verb) + 1
        stops == {k \in (from + 1)..Len(t) :
                     t[k] = "." /\ \A j \in from..(k - 1) : t[j] # "\n"}
    IN  IF from - 1 <= Len(t) /\ SubSeq(t, i, from - 1) = verb \o <<" ">> /\ stops # {}
        THEN CHOOSE k \in stops : \A j \in stops : k <= j
        ELSE 0

\* OutputSummarizer.COMPLETION_PATTERNS, searched with re.IGNORECASE
_is_complete(text) ==
    LET last_lines == join(<<"\n">>, last_n(split_lines(strip(text)), 3))
        t == lower(last_lines)
    IN  \/ \E w \in {<<"d", "o", "n", "e">>, <<"c", "o", "m", "p", "l", "e", "t", "e">>, <<"f", "i", "n", "i", "s", "h", "e", "d">>} :
             ends_with(t, w) \/ ends_with(t, w \o <<".">>)
        \/ has_str(t, <<"s", "u", "c", "c", "e", "s", "s", "f", "u", "l", "l", "y">>)
        \/ \E verb \in {<<"c", "r", "e", "a", "t", "e", "d">>, <<"u", "p", "d", "a", "t", "e", "d">>, <<"f", "i", "x", "e", "d">>} :
             \E i \in 1..Len(t) : sentence_end(t, verb, i) > 0
        \/ ends_with(last_lines, <<">", " ">>)

\* OutputSummarizer._first_last_summary
_first_last_summary(text, max_words) ==
    LET raw == split_lines(strip(text))
        lines == SelectSeq([i \in 1..Len(raw) |-> strip(raw[i])], LAMBDA l : l # << >>)
    IN  IF Len(lines) <= 4 THEN join(<<" ">>, lines)
        ELSE _truncate_to_words(
                 join(<<" ">>, first_n(lines, 2))
                 \o <<" ", ".", ".", ".", " ">> \o str(Len(lines) - 4) \o <<" ", "m", "o", "r", "e", " ", "l", "i", "n", "e", "s", " ", ".", ".", ".", " ">>
                 \o join(<<" ">>, last_n(lines, 2)),
                 max_words)

\* re.sub(r"\s+", " ", s)
RECURSIVE collapse(_)
collapse(s) ==
    IF s = << >> THEN << >>
    ELSE IF IsSpace(s[1]) THEN <<" ">> \o collapse(slice_from(s, LeadingSpaces(s)))
    ELSE <<s[1]>> \o collapse(Tail(s))

\* OutputSummarizer._extract_error_message, the empty text for None: the first pattern
\* of ERROR_PATTERNS found, from its first occurrence to the end of the line
_extract_error_message(text) ==
    LET t == lower(text)
        found == {k \in 1..Len(ERROR_PATTERNS) : has_str(t, ERROR_PATTERNS[k])}
        k == CHOOSE k \in found : \A j \in found : k <= j
        rest == slice_from(text, find_str(t, ERROR_PATTERNS[k]) - 1)
        line == strip(collapse(split_lines(rest)[1]))
    IN  IF found = {} THEN << >>
        ELSE IF Len(line) > 100 THEN SubSeq(line, 1, 100) \o <<".", ".", ".">>
        ELSE line

\* OutputSummarizer._extract_question, the empty text for None: the last of the last
\* ten lines that ends with a question mark or matches a question pattern
_extract_question(text) ==
    LET raw == last_n(split_lines(strip(text)), 10)
        lines == [i \in 1..Len(raw) |-> strip(raw[i])]
        asks == {i \in 1..Len(lines) : endswith(lines[i], <<"?">>) \/ _has_question(lines[i])}
        line == lines[CHOOSE i \in asks : \A j \in asks : j <= i]
    IN  IF asks = {} THEN << >>
        ELSE IF Len(line) > 150 THEN SubSeq(line, 1, 150)
        ELSE line

\* re.findall(r"(Verb .+?\.)", text, re.IGNORECASE) from position from on
RECURSIVE verb_matches(_, _, _)
verb_matches(text, verb, from) ==
    LET starts == {i \in from..Len(text) : sentence_end(lower(text), verb, i) > 0}
        i == CHOOSE i \in starts : \A j \in starts : i <= j
        end == sentence_end(lower(text), verb, i)
    IN  IF starts = {} THEN << >>
        ELSE <<SubSeq(text, i, end)>> \o verb_matches(text, verb, end + 1)

\* the verbs of action_patterns, in order
ActionVerbs ==
    <<<<"c", "r", "e", "a", "t", "e", "d">>, <<"u", "p", "d", "a", "t", "e", "d">>, <<"a", "d", "d", "e", "d">>, <<"r", "e", "m", "o", "v", "e", "d">>, <<"f", "i", "x", "e", "d">>, <<"i", "n", "s", "t", "a", "l", "l", "e", "d">>,
      <<"r", "u", "n", "n", "i", "n", "g">>, <<"b", "u", "i", "l", "d", "i", "n", "g">>>>

\* OutputSummarizer._extract_actions: the matches of the first k action patterns
RECURSIVE actions_upto(_, _)
actions_upto(text, k) ==
    IF k = 0 THEN << >>
    ELSE actions_upto(text, k - 1) \o verb_matches(text, ActionVerbs[k], 1)

_extract_actions(text) == actions_upto(text, Len(ActionVerbs))

\* a match of FILE_PATTERN's group at position i: the position of its last character,
\* 0 for no match; the greedy [a-zA-Z0-9_\-./]+ gives back up to the last full stop of
\* its run that an alphanumeric character follows (the optional verb in front of the
\* group changes no match of the group)
file_end(text, i) ==
    LET j == run_end(text, i, FileChars)
        dots == {p \in (i + 1)..(j - 1) : text[p] = "." /\ text[p + 1] \in Alnum}
        p == CHOOSE p \in dots : \A q \in dots : q <= p
    IN  IF dots = {} THEN 0 ELSE run_end(text, p + 1, Alnum)

\* re.findall(self.FILE_PATTERN, text) from position from on
RECURSIVE files_from(_, _)
files_from(text, from) ==
    LET starts == {i \in from..Len(text) : file_end(text, i) > 0}
        i == CHOOSE i \in starts : \A j \in starts : i <= j
    IN  IF starts = {} THEN << >>
        ELSE <<SubSeq(text, i, file_end(text, i))>> \o files_from(text, file_end(text, i) + 1)

\* OutputSummarizer._extract_files
_extract_files(text) ==
    dict_keys(SelectSeq(files_from(text, 1), LAMBDA f : f[1] # "."))

\* the words of COUNT_PATTERN
CountWords ==
    {<<"f", "i", "l", "e">>, <<"c", "h", "a", "n", "g", "e">>, <<"e", "r", "r", "o", "r">>, <<"w", "a", "r", "n", "i", "n", "g">>, <<"t", "e", "s", "t">>, <<"p", "a", "s", "s", "e", "d">>, <<"f", "a", "i", "l", "e", "d">>}

\* a match of COUNT_PATTERN at position i: the position of its last digit, 0 for no
\* match: digits, whitespace and one of the words
count_end(text, i) ==
    LET d == run_end(text, i, Digits)
        w == run_end(text, d + 1, Whitespace)
    IN  IF d >= i /\ w > d
           /\ \E word \in CountWords : startswith(slice_from(lower(text), w), word)
        THEN d ELSE 0

\* re.findall(self.COUNT_PATTERN, text, re.IGNORECASE) from position from on: the
\* pattern has one group, so each match is the string of its digits
RECURSIVE counts_from(_, _)
counts_from(text, from) ==
    LET starts == {i \in from..Len(text) : count_end(text, i) > 0}
        i == CHOOSE i \in starts : \A j \in starts : i <= j
    IN  IF starts = {} THEN << >>
        ELSE <<SubSeq(text, i, count_end(text, i))>> \o counts_from(text, count_end(text, i) + 1)

\* OutputSummarizer._extract_counts
_extract_counts(text) == first_n(counts_from(text, 1), 3)

\* OutputSummarizer._smart_summary
_smart_summary(text, has_error, has_question, is_complete, max_words) ==
    LET said(s) == IF s # << >> THEN <<s>> ELSE << >>
        status == IF has_error
                  THEN <<<<"E", "r", "r", "o", "r", " ", "e", "n", "c", "o", "u", "n", "t", "e", "r", "e", "d", ".">>>> \o said(_extract_error_message(text))
                  ELSE IF has_question
                  THEN <<<<"Q", "u", "e", "s", "t", "i", "o", "n", " ", "f", "r", "o", "m", " ", "C", "l", "a", "u", "d", "e", ":">>>> \o said(_extract_question(text))
                  ELSE IF is_complete THEN <<<<"C", "o", "m", "p", "l", "e", "t", "e", ".">>>>
                  ELSE << >>
        files == _extract_files(text)
        modified == IF files = << >> THEN << >>
                    ELSE IF Len(files) <= 3
                    THEN <<<<"M", "o", "d", "i", "f", "i", "e", "d", " ">> \o join(<<",", " ">>, files) \o <<".">>>>
                    ELSE <<<<"M", "o", "d", "i", "f", "i", "e", "d", " ">> \o str(Len(files)) \o <<" ", "f", "i", "l", "e", "s", ".">>>>
        parts == status \o first_n(_extract_actions(text), 3) \o modified
                 \o first_n(_extract_counts(text), 2)
    IN  IF Len(parts) <= 1 THEN _first_last_summary(text, max_words)
        ELSE _truncate_to_words(join(<<" ">>, parts), max_words)

Summary(text, has_error, has_question, is_complete, raw_length) ==
    [text |-> text, has_error |-> has_error, has_question |-> has_question,
     is_complete |-> is_complete, raw_length |-> raw_length]

\* OutputSummarizer.summarize under a configuration [strategy, max_spoken_length]
summarize(text, config) ==
    IF text = << >> THEN Summary(<<"N", "o", " ", "o", "u", "t", "p", "u", "t">>, FALSE, FALSE, TRUE, 0)
    ELSE Summary(
             CASE config.strategy = "full" ->
                    _truncate_to_words(text, config.max_spoken_length)
               [] config.strategy = "first_last" ->
                    _first_last_summary(text, config.max_spoken_length)
               [] OTHER ->
                    _smart_summary(text, _has_error(text), _has_question(text),
                                   _is_complete(text), config.max_spoken_length),
             _has_error(text), _has_question(text), _is_complete(text), Len(text))

----------------------------------------------------------------------------
(* The threads the command path does not follow *)

\* the threads that call the speech sink
Threads == {"main", "hotkey", "monitor"}

\* no iteration of the monitor's loop has run
NoPoll ==
    [name |-> << >>, failure |-> "", current_output |-> << >>, last_output |-> << >>,
     changed |-> FALSE, event |-> FALSE, new_output |-> << >>, spoken |-> << >>,
     muted |-> FALSE, before |-> << >>]

\* VoiceController.__init__: no monitor thread, no snapshot; the configuration as
\* SummaryConfig gives it by default
NoMonitor ==
    /\ announce_completion = TRUE
    /\ _last_outputs = << >>
    /\ monitor = [pc |-> "none", i |-> 0]
    /\ poll = NoPoll

\* VoiceOutputHandler.__init__: the lock is free and no thread is in speak
NoSpeech ==
    /\ speaking = [t \in Threads |-> "none"]
    /\ _lock = ""

\* most holds of the hotkey that are followed
MaxHolds == 2
\* most key events waiting for the listener's thread
MaxEvents == 2

\* PushToTalkHandler.__init__ and VoiceInputHandler.__init__: no listener, no key
\* pressed, no recording, no audio stream (streams counts the streams that are open);
\* no key is down, the hotkey has not been held yet, no key event is waiting and
\* on_transcription has not been called (calls counts its calls per hold of the
\* hotkey, handling the calls that have not returned)
NoListener ==
    [_running |-> FALSE, _key_pressed |-> FALSE, current_modifiers |-> {},
     _recording |-> FALSE, _stream |-> FALSE, streams |-> 0,
     listener |-> "none", down |-> {}, holds |-> 0, events |-> << >>,
     calls |-> [h \in 1..MaxHolds |-> 0], handling |-> 0]

NoKeys == ptt = NoListener

\* the Summary of no call
NoSummary ==
    [text |-> << >>, has_error |-> FALSE, has_question |-> FALSE, is_complete |-> FALSE,
     raw_length |-> 0]

\* a text and a configuration to which no text function has been applied yet
Unapplied(text, config) ==
    [text |-> text, config |-> config, done |-> {}, summary |-> NoSummary,
     busy |-> FALSE, ready |-> FALSE]

\* no text is looked at outside the controller; the configuration is SummaryConfig()
NoText == applied = Unapplied(<< >>, [strategy |-> "smart", max_spoken_length |-> 150])

----------------------------------------------------------------------------
(* controller.py: the output monitor *)

\* a plausible slip: the snapshot is looked up under a key that is never stored
outputs_get_missing(name) == << >>

\* self._last_outputs.get(name, "")
outputs_get(name) ==
    IF \E k \in 1..Len(_last_outputs) : _last_outputs[k].name = name
    THEN _last_outputs[CHOOSE k \in 1..Len(_last_outputs) : _last_outputs[k].name = name].output
    ELSE << >>

\* a plausible slip: the map is rebuilt with the one entry, so that the snapshots of
\* the other sessions are lost
outputs_set_alone(name, current_output) == <<[name |-> name, output |-> current_output]>>

\* self._last_outputs[name] = current_output
outputs_set(name, current_output) ==
    IF \E k \in 1..Len(_last_outputs) : _last_outputs[k].name = name
    THEN [k \in 1..Len(_last_outputs) |->
            IF _last_outputs[k].name = name
            THEN [name |-> name, output |-> current_output]
            ELSE _last_outputs[k]]
    ELSE Append(_last_outputs, [name |-> name, output |-> current_output])

\* VoiceController._is_claude_ready
_is_claude_ready(output) ==
    LET stripped == strip(output)
        nl == IF contains(stripped, "\n")
              THEN CHOOSE i \in 1..Len(stripped) :
                       stripped[i] = "\n" /\ \A j \in (i + 1)..Len(stripped) : stripped[j] # "\n"
              ELSE 0
        last_line == strip(slice_from(stripped, nl))
    IN  endswith(last_line, <<">">>) \/ has_str(last_line, <<">", " ">>)

\* a plausible slip: the text after the last occurrence of the old snapshot (rfind)
new_output_rfind(current_output, last_output) ==
    LET at(i) == SubSeq(current_output, i, i + Len(last_output) - 1) = last_output
        starts == 1..(Len(current_output) - Len(last_output) + 1)
    IN  IF last_output # << >> /\ has_str(current_output, last_output)
        THEN slice_from(current_output,
                        (CHOOSE i \in starts : at(i) /\ \A j \in starts : at(j) => j <= i) - 1
                        + Len(last_output))
        ELSE current_output

\* new_output in VoiceController._announce_completion: the text handed to the summarizer
new_output(current_output, last_output) ==
    IF last_output # << >> /\ has_str(current_output, last_output)
    THEN slice_from(current_output, (find_str(current_output, last_output) - 1) + Len(last_output))
    ELSE current_output

\* a plausible slip: the threshold of 50 characters is inclusive
_announce_completion_from_50(project_name, current_output, last_output) ==
    LET delta == new_output(current_output, last_output)
    IN  IF ~announce_completion THEN << >>
        ELSE IF Len(delta) >= 50 \/ _has_error(delta) \/ _has_question(delta)
        THEN speak(project_name \o <<": ">> \o summarize_text(delta))
        ELSE << >>

\* VoiceController._announce_completion: the calls it makes on the speech sink
_announce_completion(project_name, current_output, last_output) ==
    LET delta == new_output(current_output, last_output)
    IN  IF ~announce_completion THEN << >>
        ELSE IF Len(delta) > 50 \/ _has_error(delta) \/ _has_question(delta)
        THEN speak(project_name \o <<": ">> \o summarize_text(delta))
        ELSE << >>

\* threading.Thread(target=self._monitor_outputs).start() in VoiceController.start
MonitorStart == monitor' = [pc |-> "check", i |-> 0]

\* while self._running: the test at the top of _monitor_outputs
MonitorCheck ==
    /\ monitor.pc = "check"
    /\ monitor' = IF running THEN [pc |-> "pass", i |-> 1]
                  ELSE [pc |-> "done", i |-> 0]
    /\ UNCHANGED <<announce_completion, _last_outputs, poll>>

\* a plausible slip: the try statement is around the loop, so that an exception
\* ends the thread
next_session_abort(name, failure) ==
    IF failure \in {"read", "summarize", "speak"} THEN [pc |-> "done", i |-> 0]
    ELSE IF monitor.i < Len(windows) THEN [pc |-> "pass", i |-> monitor.i + 1]
    ELSE [pc |-> "sleep", i |-> 0]

\* where the loop over the sessions goes after the iteration for the i-th session,
\* whether it ended normally or in the except clause
next_session(name, failure) ==
    IF monitor.i < Len(windows) THEN [pc |-> "pass", i |-> monitor.i + 1]
    ELSE [pc |-> "sleep", i |-> 0]

\* one iteration of the loop over the sessions in _monitor_outputs, for the text
\* get_text returns; failure names where an exception is raised: in get_text ("read"),
\* on the way to the announcement ("summarize") or by the speech sink ("speak"); the
\* failure "kitty" is the CalledProcessError of the kitty call, which get_text catches
\* itself and turns into the empty text, so that the iteration goes on with it
MonitorPoll(failure, current_output) ==
    LET name == windows[monitor.i]
        last_output == outputs_get(name)
        changed == failure # "read" /\ current_output # last_output
        event == changed /\ _is_claude_ready(current_output) /\ ~_is_claude_ready(last_output)
        spoken == IF event /\ failure # "summarize"
                  THEN _announce_completion(name, current_output, last_output)
                  ELSE << >>
    IN  /\ monitor.pc = "pass"
        /\ failure \in {"read", "kitty"} => current_output = << >>
        /\ failure = "summarize" => event /\ announce_completion
        /\ failure = "speak" => spoken # << >>
        /\ _last_outputs' = IF changed THEN outputs_set(name, current_output) ELSE _last_outputs
        /\ poll' = [name |-> name, failure |-> failure, current_output |-> current_output,
                    last_output |-> last_output, changed |-> changed, event |-> event,
                    new_output |-> IF event /\ announce_completion /\ failure # "summarize"
                                   THEN new_output(current_output, last_output) ELSE << >>,
                    spoken |-> spoken, muted |-> muted, before |-> _last_outputs]
        /\ monitor' = next_session(name, failure)
        /\ UNCHANGED announce_completion

\* time.sleep(1) at the end of a pass
MonitorSleep ==
    /\ monitor.pc = "sleep"
    /\ monitor' = [pc |-> "check", i |-> 0]
    /\ UNCHANGED <<announce_completion, _last_outputs, poll>>

----------------------------------------------------------------------------
(* Configurations and utterances *)

s_api == <<"a","p","i">>
s_Api == <<"A","p","i">>
s_API == <<"A","P","I">>
s_frontend == <<"f","r","o","n","t","e","n","d">>
s_fe == <<"f","e">>
s_xyz == <<"x","y","z">>
s_Focus == <<"F","o","c","u","s">>
s_Deploy == <<"D","e","p","l","o","y">>
s_deploy == <<"d","e","p","l","o","y">>
s_halt == <<"h","a","l","t">>
s_npm_run_deploy == <<"n","p","m"," ","r","u","n"," ","d","e","p","l","o","y">>
s_Run_It == <<"R","u","n"," ","I","t">>
s_a_colon_b == <<"a",":","b">>
s_add_a_login_button ==
    <<"a","d","d"," ","a"," ","l","o","g","i","n"," ","b","u","t","t","o","n">>

\* longest project table
MaxProjects == 2
\* most whitespace in front of an utterance
MaxLead == 2

Spaces(n) == [i \in 1..n |-> " "]

Project(name, voice_alias) == [name |-> name, voice_alias |-> voice_alias]

\* project names (dict keys: distinct as written, two of them equal once lowercased)
NamePool == {s_api, s_Api, s_frontend}
\* alias lists: one collides with a name once lowercased, one is a global phrase
AliasLists == {<< >>, <<s_API>>, <<s_help>>}

ProjectPool == {Project(n, a) : n \in NamePool, a \in AliasLists}

RECURSIVE TablesOfLen(_)
TablesOfLen(n) ==
    IF n = 0 THEN {<< >>}
    ELSE {Append(t, p) : t \in TablesOfLen(n - 1), p \in ProjectPool}

DistinctKeys(t) == \A i, j \in 1..Len(t) : t[i].name = t[j].name => i = j

\* the project tables of the router's specification
Tables == {t \in UNION {TablesOfLen(n) : n \in 1..MaxProjects} : DistinctKeys(t)}

RouterHeads ==
    {s_api, s_API, s_frontend, s_fe, s_xyz,
     s_status, s_mute, s_unmute, s_louder, s_softer, s_quieter,
     s_shut_down, s_shutdown, s_stop_all, s_help}
RouterSeps == {<< >>, <<" ">>, <<" ", " ">>, <<":">>, <<" ", ":", " ">>, <<",", " ">>}
RouterRests == {<< >>, s_Run_It, s_a_colon_b}
Trails == {<< >>, <<" ">>}

\* the utterances of the router's specification
RouterUtterances ==
    {Spaces(n) \o h \o sep \o r \o t :
        n \in 0..MaxLead, h \in RouterHeads, sep \in RouterSeps, r \in RouterRests, t \in Trails}

\* the spoken names of the router's specification
SpokenNames == {Spaces(n) \o h \o t : n \in 0..MaxLead, h \in RouterHeads \cup {s_Api}, t \in Trails}

\* everything but the project table is as VoiceController.__init__ leaves it
InitRouter ==
    /\ projects \in Tables
    /\ commands = << >>
    /\ windows = << >>
    /\ muted = FALSE
    /\ running = FALSE
    /\ volume = 8
    /\ pc = "new"
    /\ last = NoCall
    /\ ops = << >>
    /\ NoMonitor
    /\ NoSpeech
    /\ NoKeys
    /\ NoText

\* one call of _parse_command
ParseCommand(text) ==
    /\ last = NoCall
    /\ last' = Call("parse", text, _parse_command(text), 0)
    /\ UNCHANGED <<projects, commands, windows, muted, running, volume, pc, ops>>

\* one call of Config.find_project_by_voice
FindProjectByVoice(spoken_name) ==
    /\ last = NoCall
    /\ last' = Call("find", spoken_name, NoParsed, find_project_by_voice(spoken_name))
    /\ UNCHANGED <<projects, commands, windows, muted, running, volume, pc, ops>>

NextRouter ==
    \/ /\ \E text \in RouterUtterances : ParseCommand(text)
       /\ UNCHANGED <<monitorVars, sinkVars, keyVars, textVars>>
    \/ /\ \E spoken_name \in SpokenNames : FindProjectByVoice(spoken_name)
       /\ UNCHANGED <<monitorVars, sinkVars, keyVars, textVars>>

SpecRouter == InitRouter /\ [][NextRouter]_vars

\* the configurations of the controller's specification
ControllerTables ==
    { <<Project(s_frontend, <<s_fe>>), Project(s_api, << >>)>>,
      <<Project(s_Api, <<s_help>>)>> }
CommandTables ==
    { << >>,
      <<[name |-> s_Deploy, send |-> s_npm_run_deploy],
        [name |-> s_stop, send |-> s_halt],
        [name |-> s_Run_It, send |-> << >>]>> }

GlobalUtterances == {GLOBAL_COMMANDS[i].phrase : i \in 1..Len(GLOBAL_COMMANDS)}
WindowUtterances ==
    {h \o sep \o r :
        h \in {s_api, s_frontend, s_xyz},
        sep \in {<<" ">>, <<":">>, <<",", " ">>},
        r \in {<< >>, s_stop, s_Focus, s_read, s_deploy, s_Run_It, s_add_a_login_button}}

\* the utterances of the controller's specification
Utterances == GlobalUtterances \cup WindowUtterances

\* the arguments of start(): a list of project names, empty for None
StartArgs ==
    LET names == {projects[i].name : i \in 1..Len(projects)} \cup {s_xyz}
    IN  {<< >>} \cup {<<a>> : a \in names} \cup {<<a, b>> : a \in names, b \in names}

Init ==
    /\ projects \in ControllerTables
    /\ commands \in CommandTables
    /\ windows = << >>
    /\ muted = FALSE
    /\ running = FALSE
    /\ volume = 8
    /\ pc = "new"
    /\ last = NoCall
    /\ ops = << >>
    /\ NoMonitor
    /\ NoSpeech
    /\ NoKeys
    /\ NoText

Next ==
    \/ /\ \E ready \in BOOLEAN, project_names \in StartArgs,
             launched \in SUBSET {projects[i].name : i \in 1..Len(projects)} :
            StartLaunch(ready, project_names, launched)
       /\ UNCHANGED <<monitorVars, sinkVars, keyVars, textVars>>
    \/ StartRun /\ UNCHANGED <<monitorVars, sinkVars, keyVars, textVars>>
    \/ /\ \E text \in Utterances : _handle_transcription(text)
       /\ UNCHANGED <<monitorVars, sinkVars, keyVars, textVars>>
    \/ HotkeyReturn /\ UNCHANGED <<monitorVars, sinkVars, keyVars, textVars>>
    \/ stop /\ UNCHANGED <<monitorVars, sinkVars, keyVars, textVars>>

Spec == Init /\ [][Next]_vars

----------------------------------------------------------------------------
(* The volume commands, from every configured volume *)

\* VoiceConfig.volume as the configuration file may give it, in tenths: 0.0 to 1.0
ConfiguredVolumes == 0..10

\* the utterances of the volume specification
VolumeUtterances == {s_louder, s_softer, s_quieter, s_mute}

InitVolume ==
    /\ projects = <<Project(s_api, << >>)>>
    /\ commands = << >>
    /\ windows = << >>
    /\ muted = FALSE
    /\ running = FALSE
    /\ volume \in ConfiguredVolumes
    /\ pc = "new"
    /\ last = NoCall
    /\ ops = << >>
    /\ NoMonitor
    /\ NoSpeech
    /\ NoKeys
    /\ NoText

NextVolume ==
    \/ /\ \E ready \in BOOLEAN, launched \in SUBSET {s_api} :
            StartLaunch(ready, << >>, launched)
       /\ UNCHANGED <<monitorVars, sinkVars, keyVars, textVars>>
    \/ StartRun /\ UNCHANGED <<monitorVars, sinkVars, keyVars, textVars>>
    \/ /\ \E text \in VolumeUtterances : _handle_transcription(text)
       /\ UNCHANGED <<monitorVars, sinkVars, keyVars, textVars>>
    \/ HotkeyReturn /\ UNCHANGED <<monitorVars, sinkVars, keyVars, textVars>>
    \/ stop /\ UNCHANGED <<monitorVars, sinkVars, keyVars, textVars>>

SpecVolume == InitVolume /\ [][NextVolume]_vars

----------------------------------------------------------------------------
(* The output monitor, polling two sessions *)

\* most characters of a line a session shows
MaxLine == 48

Repeat(c, n) == [i \in 1..n |-> c]

\* busy
t_old == <<"A", "\n", "B", "\n">>
\* the prompt after a short line
t_new == <<"A", "\n", "B", "\n", "C", "\n", ">", " ">>
\* the prompt after a question
t_ask == <<"o", "k", "?", "\n", ">", " ">>
\* the old text twice, an error, then the prompt
t_again == t_old \o t_old \o <<"F", "a", "i", "l", "e", "d", "\n", ">", " ">>
\* the prompt after a line of n characters: n + 3 characters after t_old
t_line(n) == t_old \o Repeat("x", n) \o <<"\n", ">", " ">>

\* what get_text returns to the monitor; the empty text is what it returns when the
\* kitty call fails
MonitorScreens ==
    {<< >>, t_old, t_new, t_ask, t_again, t_line(MaxLine - 1), t_line(MaxLine)}

\* what the session of a project shows in the monitor's specification
ScreensOf(name) == IF name = s_frontend THEN MonitorScreens ELSE {<< >>, t_old, t_again}

\* the failures of an iteration, "" for none
Failures == {"", "read", "kitty", "summarize", "speak"}

\* the utterances of the monitor's specification
MonitorUtterances == {s_shutdown}

InitMonitor ==
    /\ projects = <<Project(s_frontend, <<s_fe>>), Project(s_api, << >>)>>
    /\ commands = << >>
    /\ windows = << >>
    /\ muted = FALSE
    /\ running = FALSE
    /\ volume = 8
    /\ pc = "new"
    /\ last = NoCall
    /\ ops = << >>
    /\ announce_completion \in BOOLEAN
    /\ _last_outputs = << >>
    /\ monitor = [pc |-> "none", i |-> 0]
    /\ poll = NoPoll
    /\ NoSpeech
    /\ NoKeys
    /\ NoText

NextMonitor ==
    \/ /\ \E ready \in BOOLEAN, launched \in SUBSET {s_frontend, s_api} :
            StartLaunch(ready, << >>, launched)
       /\ UNCHANGED <<monitorVars, sinkVars, keyVars, textVars>>
    \/ /\ StartRun
       /\ MonitorStart
       /\ UNCHANGED <<announce_completion, _last_outputs, poll, sinkVars, keyVars, textVars>>
    \/ /\ MonitorCheck
       /\ UNCHANGED <<projects, commands, windows, muted, running, volume, pc, last, ops, sinkVars,
                   keyVars, textVars>>
    \/ /\ monitor.pc = "pass"
       /\ \E failure \in Failures, current_output \in ScreensOf(windows[monitor.i]) :
            MonitorPoll(failure, current_output)
       /\ UNCHANGED <<projects, commands, windows, muted, running, volume, pc, last, ops, sinkVars,
                   keyVars, textVars>>
    \/ /\ MonitorSleep
       /\ UNCHANGED <<projects, commands, windows, muted, running, volume, pc, last, ops, sinkVars,
                   keyVars, textVars>>
    \/ /\ \E text \in MonitorUtterances : _handle_transcription(text)
       /\ UNCHANGED <<monitorVars, sinkVars, keyVars, textVars>>
    \/ HotkeyReturn /\ UNCHANGED <<monitorVars, sinkVars, keyVars, textVars>>

SpecMonitor == InitMonitor /\ [][NextMonitor]_vars

----------------------------------------------------------------------------
(* The text functions on their own: the summarizer and the two readiness tests *)

\* a line of words and no more
x_words == <<"o", "n", "e", " ", "t", "w", "o", " ", "t", "h", "r", "e", "e", " ", "f", "o", "u", "r", " ", "f", "i", "v", "e">>
\* six lines, the last of three words
x_lines == <<"a", "\n", "b", "\n", "c", "\n", "d", "\n", "e", "\n", "f", " ", "g", " ", "h">>
\* an error in the first of two lines
x_error == <<"B", "u", "i", "l", "d", " ", " ", "E", "r", "r", "o", "r", ":", " ", "x", " ", "y", " ", "z", " ", "w", "\n", "m", "o", "r", "e">>
\* a question and the prompt
x_question == <<"D", "o", " ", "y", "o", "u", " ", "w", "a", "n", "t", " ", "a", " ", "b", " ", "c", " ", "d", "?", "\n", ">", " ">>
\* actions, a file and a count
x_actions == <<"C", "r", "e", "a", "t", "e", "d", " ", "f", "o", "o", ".", "p", "y", ".", " ", "U", "p", "d", "a", "t", "e", "d", " ", "2", " ", "f", "i", "l", "e", "s", ".", "\n", "D", "o", "n", "e", ".">>
\* counts
x_counts == <<"3", " ", "t", "e", "s", "t", "s", " ", "p", "a", "s", "s", "e", "d", "\n", "1", "2", " ", "f", "a", "i", "l", "e", "d", "\n", ">", " ">>
\* four files
x_files == <<"s", "e", "e", " ", "a", ".", "p", "y", " ", "b", ".", "p", "y", " ", "c", ".", "p", "y", " ", "d", ".", "p", "y">>

\* the texts the functions are applied to
Texts ==
    { << >>, <<" ", " ">>, <<">", " ">>, <<"a", "$", "\n", " ", "\n">>, <<"o", "k", "\n", ">", " ", "x">>, <<"B", "u", "i", "l", "d", "i", "n", "g", ".", ".", ".", "\n">>, <<"D", "o", "n", "e", ".">>,
      x_words, x_lines, x_error, x_question, x_actions, x_counts, x_files }

\* SummaryConfig: the strategies and the most words spoken, the default and a small one
SummaryConfigs ==
    [strategy : {"smart", "first_last", "full"}, max_spoken_length : {3, max_spoken_length}]

InitText ==
    /\ projects = <<Project(s_api, << >>)>>
    /\ commands = << >>
    /\ windows = << >>
    /\ muted = FALSE
    /\ running = FALSE
    /\ volume = 8
    /\ pc = "new"
    /\ last = NoCall
    /\ ops = << >>
    /\ NoMonitor
    /\ NoSpeech
    /\ NoKeys
    /\ \E text \in Texts, config \in SummaryConfigs : applied = Unapplied(text, config)

\* one call of OutputSummarizer.summarize
Summarize ==
    /\ "summarize" \notin applied.done
    /\ applied' = [applied EXCEPT !.done = @ \cup {"summarize"},
                                  !.summary = summarize(applied.text, applied.config)]

\* one call of KittyWindow.is_busy on a session that shows the text
IsBusy ==
    /\ "is_busy" \notin applied.done
    /\ applied' = [applied EXCEPT !.done = @ \cup {"is_busy"},
                                  !.busy = is_busy(applied.text)]

\* one call of VoiceController._is_claude_ready
IsClaudeReady ==
    /\ "_is_claude_ready" \notin applied.done
    /\ applied' = [applied EXCEPT !.done = @ \cup {"_is_claude_ready"},
                                  !.ready = _is_claude_ready(applied.text)]

NextText ==
    \/ /\ Summarize
       /\ UNCHANGED <<projects, commands, windows, muted, running, volume, pc, last, ops,
                      monitorVars, sinkVars, keyVars>>
    \/ /\ IsBusy
       /\ UNCHANGED <<projects, commands, windows, muted, running, volume, pc, last, ops,
                      monitorVars, sinkVars, keyVars>>
    \/ /\ IsClaudeReady
       /\ UNCHANGED <<projects, commands, windows, muted, running, volume, pc, last, ops,
                      monitorVars, sinkVars, keyVars>>

SpecText == InitText /\ [][NextText]_vars

----------------------------------------------------------------------------
(* The command path and the output monitor together *)

\* the utterances: every kind of global command and of window command
WholeUtterances ==
    {s_status, s_mute, s_stop_all, s_shutdown, s_help, s_louder,
     s_api \o <<":">> \o s_read, s_api \o <<" ">> \o s_stop, s_api \o <<":">> \o s_Focus,
     s_frontend \o <<" ">> \o s_Run_It, s_xyz \o <<" ">> \o s_Run_It}

\* what get_text returns to the monitor: a busy session and one at its prompt after
\* a question
WholeScreens == {t_old, t_ask}

InitWhole ==
    /\ projects = <<Project(s_frontend, <<s_fe>>), Project(s_api, << >>)>>
    /\ commands = << >>
    /\ windows = << >>
    /\ muted = FALSE
    /\ running = FALSE
    /\ volume = 10
    /\ pc = "new"
    /\ last = NoCall
    /\ ops = << >>
    /\ NoMonitor
    /\ NoSpeech
    /\ NoKeys
    /\ NoText

NextWhole ==
    \/ /\ \E launched \in {{s_api}, {s_frontend, s_api}} : StartLaunch(TRUE, << >>, launched)
       /\ UNCHANGED <<monitorVars, sinkVars, keyVars, textVars>>
    \/ /\ StartRun
       /\ MonitorStart
       /\ UNCHANGED <<announce_completion, _last_outputs, poll, sinkVars, keyVars, textVars>>
    \/ /\ MonitorCheck
       /\ UNCHANGED <<projects, commands, windows, muted, running, volume, pc, last, ops,
                      sinkVars, keyVars, textVars>>
    \/ /\ monitor.pc = "pass"
       /\ \/ \E current_output \in WholeScreens : MonitorPoll("", current_output)
          \/ MonitorPoll("kitty", << >>)
       /\ UNCHANGED <<projects, commands, windows, muted, running, volume, pc, last, ops,
                      sinkVars, keyVars, textVars>>
    \/ /\ MonitorSleep
       /\ UNCHANGED <<projects, commands, windows, muted, running, volume, pc, last, ops,
                      sinkVars, keyVars, textVars>>
    \/ /\ \E text \in WholeUtterances : _handle_transcription(text)
       /\ UNCHANGED <<monitorVars, sinkVars, keyVars, textVars>>
    \/ HotkeyReturn /\ UNCHANGED <<monitorVars, sinkVars, keyVars, textVars>>
    \/ stop /\ UNCHANGED <<monitorVars, sinkVars, keyVars, textVars>>

SpecWhole == InitWhole /\ [][NextWhole]_vars

----------------------------------------------------------------------------
(* voice_input.py: the hotkey, its listener and the recorder *)

\* VoiceConfig.hotkey, lowercased and split at "+"
hotkey == <<"ctrl", "shift", "v">>

\* PushToTalkHandler._parse_hotkey
_parse_hotkey ==
    [modifiers |-> {hotkey[i] : i \in 1..(Len(hotkey) - 1)}, key |-> hotkey[Len(hotkey)]]

required_modifiers == _parse_hotkey.modifiers
trigger_key == _parse_hotkey.key

\* the keys that are followed
Keys == required_modifiers \cup {trigger_key}

\* VoiceInputHandler.start_recording: nothing while a recording is active; otherwise
\* the flag is set and then the stream is opened, which fails without a microphone
start_recording(p, opened) ==
    IF p._recording THEN p
    ELSE IF opened
         THEN [p EXCEPT !._recording = TRUE, !._stream = TRUE, !.streams = @ + 1]
         ELSE [p EXCEPT !._recording = TRUE]

\* VoiceInputHandler.stop_recording: the flag is reset and the stream, if any, closed
stop_recording(p) ==
    [p EXCEPT !._recording = FALSE, !._stream = FALSE,
              !.streams = IF p._stream THEN @ - 1 ELSE @]

\* a plausible variant: on_transcription is started on a thread of its own, so that the
\* listener is free for the next key event at once
_on_hotkey_released_thread(p, hold, heard) ==
    LET q == stop_recording(p)
    IN  IF p._stream /\ heard
        THEN [q EXCEPT !.handling = @ + 1, !.calls[hold] = @ + 1]
        ELSE q

\* PushToTalkHandler._on_hotkey_released: the recording is stopped and transcribed (no
\* audio without a stream, no text unless something was heard); with a text,
\* on_transcription is called on the listener's thread, which stays in the call
_on_hotkey_released(p, hold, heard) ==
    LET q == stop_recording(p)
    IN  IF p._stream /\ heard
        THEN [q EXCEPT !.listener = "handler", !.handling = @ + 1, !.calls[hold] = @ + 1]
        ELSE q

\* current_modifiers after the press of key
pressed_modifiers(p, key) ==
    IF key \in {"ctrl", "shift", "alt", "cmd"}
    THEN p.current_modifiers \cup {key} ELSE p.current_modifiers

\* on_press of PushToTalkHandler.start, for the running handler: the modifier is noted;
\* the trigger key with the required modifiers sets _key_pressed, once per hold as far
\* as the listener knows, and starts the recording (_on_hotkey_pressed); an exception of
\* start_recording is not caught and ends the listener
on_press(p, key, opened) ==
    LET q == [p EXCEPT !.current_modifiers = pressed_modifiers(p, key)]
    IN  IF key = trigger_key /\ required_modifiers \subseteq q.current_modifiers
           /\ ~q._key_pressed
        THEN LET r == start_recording([q EXCEPT !._key_pressed = TRUE], opened)
             IN  IF q._recording \/ opened THEN r ELSE [r EXCEPT !.listener = "stopped"]
        ELSE q

\* on_release of PushToTalkHandler.start, for the running handler
on_release(p, key, hold, heard) ==
    LET q == [p EXCEPT !.current_modifiers = @ \ {key}]
    IN  IF key = trigger_key /\ q._key_pressed
        THEN _on_hotkey_released([q EXCEPT !._key_pressed = FALSE], hold, heard)
        ELSE q

\* what the hotkey path leaves alone
UNCHANGED_controller ==
    UNCHANGED <<projects, commands, windows, muted, running, volume, pc, last, ops,
                monitorVars, sinkVars, textVars>>

\* the key events reach the listener in their order; one that finds MaxEvents waiting,
\* or no listener, is lost
delivered(p, e) ==
    IF p.listener \in {"idle", "handler"} /\ Len(p.events) < MaxEvents
    THEN Append(p.events, e) ELSE p.events

\* PushToTalkHandler.start
PttStart ==
    /\ ptt.listener = "none"
    /\ ~ptt._running
    /\ ptt' = [ptt EXCEPT !._running = TRUE, !.listener = "idle"]
    /\ UNCHANGED_controller

\* the user presses a key: a new hold of the hotkey when it is the trigger key
KeyDown(key) ==
    /\ key \notin ptt.down
    /\ key = trigger_key => ptt.holds < MaxHolds
    /\ LET holds == IF key = trigger_key THEN ptt.holds + 1 ELSE ptt.holds
       IN  ptt' = [ptt EXCEPT !.down = @ \cup {key}, !.holds = holds,
                        !.events = delivered(ptt, [kind |-> "press", key |-> key, hold |-> holds])]
    /\ UNCHANGED_controller

\* the keyboard repeats the press of a key that is held down
KeyRepeat(key) ==
    /\ key \in ptt.down
    /\ Len(ptt.events) < MaxEvents
    /\ ptt.listener \in {"idle", "handler"}
    /\ ptt' = [ptt EXCEPT
                 !.events = delivered(ptt, [kind |-> "press", key |-> key, hold |-> ptt.holds])]
    /\ UNCHANGED_controller

\* the user lets a key go
KeyUp(key) ==
    /\ key \in ptt.down
    /\ ptt' = [ptt EXCEPT !.down = @ \ {key},
                     !.events = delivered(ptt, [kind |-> "release", key |-> key, hold |-> ptt.holds])]
    /\ UNCHANGED_controller

\* the listener's thread takes the next event when no callback is running; a callback
\* that finds _running false returns False, which stops the listener
ListenerStep(opened, heard) ==
    /\ ptt.listener = "idle"
    /\ ptt.events # << >>
    /\ LET e == Head(ptt.events)
           p == [ptt EXCEPT !.events = Tail(@)]
       IN  ptt' = IF ~p._running THEN [p EXCEPT !.listener = "stopped", !.events = << >>]
                  ELSE IF e.kind = "press" THEN on_press(p, e.key, opened)
                  ELSE on_release(p, e.key, e.hold, heard)
    /\ UNCHANGED_controller

\* on_transcription returns; stopping says whether it has called
\* PushToTalkHandler.stop (through the shutdown command)
HandlerReturn(stopping) ==
    /\ ptt.handling > 0
    /\ LET stopped == stopping \/ ~ptt._running
       IN  ptt' = [ptt EXCEPT !.handling = @ - 1,
                        !._running = ~stopped,
                        !.listener = IF @ # "handler" THEN @
                                     ELSE IF stopped THEN "stopped" ELSE "idle",
                        !.events = IF stopped THEN << >> ELSE @]
    /\ UNCHANGED_controller

\* PushToTalkHandler.stop, called by the main thread: the listener is stopped as soon
\* as its callback, if one is running, has returned
PttStop ==
    /\ ptt._running
    /\ ptt' = [ptt EXCEPT !._running = FALSE,
                     !.listener = IF @ = "idle" THEN "stopped" ELSE @,
                     !.events = IF ptt.listener = "idle" THEN << >> ELSE @]
    /\ UNCHANGED_controller

\* the controller as constructed: start() has not been called yet
InitHotkey == InitWhole

NextHotkey ==
    \/ PttStart
    \/ \E key \in Keys : KeyDown(key)
    \/ \E key \in Keys : KeyRepeat(key)
    \/ \E key \in Keys : KeyUp(key)
    \/ \E opened, heard \in BOOLEAN : ListenerStep(opened, heard)
    \/ \E stopping \in BOOLEAN : HandlerReturn(stopping)
    \/ PttStop

SpecHotkey == InitHotkey /\ [][NextHotkey]_vars

----------------------------------------------------------------------------
(* The threads of run(): the main thread, the hotkey listener and the output    *)
(* monitor, with the speech sink they share                                     *)

\* the sink is entered by thread t when the operation made calls on it: the thread is
\* at "with self._lock" of VoiceOutputHandler.speak (the texts are never empty)
Enter(t, calls) ==
    speaking' = IF calls # << >> THEN [speaking EXCEPT ![t] = "speak"] ELSE speaking

\* "with self._lock", of speak and then of the stop() that speak calls while it holds
\* the lock: threading.Lock is not reentrant, both wait until the lock is free; after
\* stop() the caller would run say
Acquire(t) ==
    /\ speaking[t] \in {"speak", "stop"}
    /\ _lock = ""
    /\ _lock' = t
    /\ speaking' = [speaking EXCEPT ![t] = IF @ = "speak" THEN "stop" ELSE "say"]
    /\ UNCHANGED <<projects, commands, windows, muted, running, volume, pc, last, ops,
                   monitorVars, keyVars, textVars>>

\* VoiceController.start: self._running = True and the start of the monitor thread
ThreadSetRunning ==
    /\ pc = "ptt"
    /\ running' = TRUE
    /\ MonitorStart
    /\ pc' = "announce"
    /\ UNCHANGED <<projects, commands, windows, muted, volume, last, ops,
                   announce_completion, _last_outputs, poll, sinkVars, keyVars, textVars>>

\* VoiceController.start: the ready announcement, after which start returns to run()
ThreadAnnounceReady ==
    /\ pc = "announce"
    /\ Enter("main", speak(<<"Voice control ready. Projects: ">> \o join(<<",", " ">>, windows)))
    /\ pc' = "loop"
    /\ UNCHANGED <<projects, commands, windows, muted, running, volume, last, ops,
                   monitorVars, _lock, keyVars, textVars>>

\* VoiceController.run: the wait loop ends when the running flag is found false or
\* when the keyboard interrupts it
ThreadWait(interrupt) ==
    /\ pc = "loop"
    /\ speaking["main"] = "none"
    /\ ~running \/ interrupt
    /\ pc' = "stop"
    /\ UNCHANGED <<projects, commands, windows, muted, running, volume, last, ops,
                   monitorVars, sinkVars, keyVars, textVars>>

\* VoiceController.stop up to its farewell; the hotkey listener is stopped
ThreadStop ==
    /\ pc = "stop"
    /\ running' = FALSE
    /\ Enter("main", speak(<<"Shutting down voice control.">>))
    /\ pc' = "close"
    /\ UNCHANGED <<projects, commands, windows, muted, volume, last, ops,
                   monitorVars, _lock, keyVars, textVars>>

\* VoiceController.stop: kitty.close_all(), after which run() returns
ThreadCloseAll ==
    /\ pc = "close"
    /\ speaking["main"] = "none"
    /\ pc' = "stopped"
    /\ UNCHANGED <<projects, commands, windows, muted, running, volume, last, ops,
                   monitorVars, sinkVars, keyVars, textVars>>

\* VoiceController._handle_transcription on the listener's thread, which runs from
\* PushToTalkHandler.start() until VoiceController.stop() stops it; its last statement
\* is the call of the sink, if it makes one
ThreadHandle(text) ==
    LET parsed == _parse_command(text)
    IN  /\ pc \in {"ptt", "announce", "loop", "stop"}
        /\ last.op # "handle"
        /\ last' = Call("handle", text, parsed, 0)
        /\ IF parsed.is_global
           THEN _execute_global_command(parsed.command)
           ELSE IF parsed.target # None /\ parsed.target # << >>
           THEN _execute_window_command(parsed.target, parsed.command)
                /\ UNCHANGED <<muted, running, volume, keyVars, textVars>>
           ELSE ops' = speak(<<"I didn't understand which project you meant.">>)
                /\ UNCHANGED <<muted, running, volume, keyVars, textVars>>
        /\ Enter("hotkey", SelectSeq(ops', LAMBDA o : o.op = "speak"))
        /\ UNCHANGED <<projects, commands, windows, pc, monitorVars, _lock, keyVars, textVars>>

\* _on_hotkey_released returns to the listener
ThreadReturn ==
    /\ speaking["hotkey"] = "none"
    /\ HotkeyReturn
    /\ UNCHANGED <<monitorVars, sinkVars, keyVars, textVars>>

\* the test at the top of the monitor's loop
ThreadMonitorCheck ==
    /\ speaking["monitor"] = "none"
    /\ MonitorCheck
    /\ UNCHANGED <<projects, commands, windows, muted, running, volume, pc, last, ops, sinkVars,
                   keyVars, textVars>>

\* one iteration of the monitor's loop over the sessions; its announcement enters the sink
ThreadMonitorPoll(current_output) ==
    /\ speaking["monitor"] = "none"
    /\ MonitorPoll("", current_output)
    /\ Enter("monitor", poll'.spoken)
    /\ UNCHANGED <<projects, commands, windows, muted, running, volume, pc, last, ops, _lock,
                   keyVars, textVars>>

\* the sleep at the end of a pass
ThreadMonitorSleep ==
    /\ speaking["monitor"] = "none"
    /\ MonitorSleep
    /\ UNCHANGED <<projects, commands, windows, muted, running, volume, pc, last, ops, sinkVars,
                   keyVars, textVars>>

\* the utterances of the threads' specification
ThreadUtterances == {s_shutdown, s_shut_down, s_mute, s_help}

\* what get_text returns to the monitor in the threads' specification
ThreadScreens == {t_old, t_again}

InitThreads ==
    /\ projects = <<Project(s_api, << >>)>>
    /\ commands = << >>
    /\ windows = << >>
    /\ muted = FALSE
    /\ running = FALSE
    /\ volume = 8
    /\ pc = "new"
    /\ last = NoCall
    /\ ops = << >>
    /\ NoMonitor
    /\ NoSpeech
    /\ NoKeys
    /\ NoText

\* the steps of the main thread that need no key to be pressed
MainStep ==
    \/ /\ \E ready \in BOOLEAN, launched \in SUBSET {s_api} :
            StartLaunch(ready, << >>, launched)
       /\ UNCHANGED <<monitorVars, sinkVars, keyVars, textVars>>
    \/ ThreadSetRunning
    \/ ThreadAnnounceReady
    \/ ThreadWait(FALSE)
    \/ ThreadStop
    \/ ThreadCloseAll

\* the steps of the monitor thread
MonitorStep ==
    \/ ThreadMonitorCheck
    \/ \E current_output \in ThreadScreens : ThreadMonitorPoll(current_output)
    \/ ThreadMonitorSleep

NextThreads ==
    \/ MainStep
    \/ ThreadWait(TRUE)
    \/ \E text \in ThreadUtterances : ThreadHandle(text)
    \/ ThreadReturn
    \/ MonitorStep
    \/ \E t \in Threads : Acquire(t)

\* every thread that can take a step takes one; no utterance and no keyboard interrupt
\* has to come
SpecThreads ==
    /\ InitThreads /\ [][NextThreads]_vars
    /\ WF_vars(MainStep)
    /\ WF_vars(ThreadReturn)
    /\ WF_vars(MonitorStep)
    /\ \A t \in Threads : WF_vars(Acquire(t))

----------------------------------------------------------------------------
(* The router's contract *)

TenGlobalPhrases ==
    {s_status, s_mute, s_unmute, s_louder, s_softer, s_quieter,
     s_shut_down, s_shutdown, s_stop_all, s_help}

\* the lowercased, trimmed utterance starts with a global phrase
StartsGlobal(text) == \E g \in TenGlobalPhrases : startswith(strip(lower(text)), g)

\* the i-th project answers to the spoken name once both are lowercased
Answers(i, spoken_name) ==
    \/ lower(projects[i].name) = strip(lower(spoken_name))
    \/ \E k \in 1..Len(projects[i].voice_alias) :
         lower(projects[i].voice_alias[k]) = strip(lower(spoken_name))

\* the first project in registration order that answers to the spoken name, 0 for none
Resolved(spoken_name) ==
    IF \E i \in 1..Len(projects) : Answers(i, spoken_name)
    THEN CHOOSE i \in 1..Len(projects) :
             Answers(i, spoken_name) /\ \A j \in 1..(i - 1) : ~Answers(j, spoken_name)
    ELSE 0

\* the text before and after the first colon of an utterance that has one
BeforeColon(text) == SubSeq(text, 1, find(text, ":") - 1)
AfterColon(text) == SubSeq(text, find(text, ":") + 1, Len(text))

\* the utterance is a colon form whose left side resolves
ColonForm(text) == contains(text, ":") /\ Resolved(BeforeColon(text)) > 0

\* C1: an utterance whose lowercased, trimmed text equals or starts with one of the ten
\* global phrases is parsed as a Global command with no target whose command text is
\* that phrase, whatever the project table, also when the utterance begins with a
\* project name or alias in prefix or colon form.
C1_GlobalPhraseFirst ==
    last.op = "parse" =>
        \A g \in TenGlobalPhrases :
            startswith(strip(lower(last.text)), g) =>
                last.parsed = [target |-> None, command |-> g, is_global |-> TRUE]

\* a global phrase that is also an alias of a configured project, spoken in colon form
C1_Witness ==
    /\ last.op = "parse"
    /\ last.text = s_help \o <<":">> \o s_Run_It
    /\ Resolved(s_help) > 0
    /\ last.parsed.is_global
    /\ last.parsed.command = s_help

\* C2: an utterance '<alias>: <rest>' that starts with no global phrase and whose text
\* before the first colon resolves to a configured project is parsed as a Window command
\* for that project, its action text being everything after the first colon, trimmed,
\* in its original casing, the empty string included.
C2_ColonForm ==
    (last.op = "parse" /\ ~StartsGlobal(last.text) /\ ColonForm(last.text)) =>
        last.parsed = [target |-> projects[Resolved(BeforeColon(last.text))].name,
                       command |-> strip(AfterColon(last.text)),
                       is_global |-> FALSE]

\* a colon form with a second colon in its command, resolved through an alias
C2_Witness ==
    /\ last.op = "parse"
    /\ last.text = s_API \o <<" ", ":", " ">> \o s_a_colon_b \o <<" ">>
    /\ ColonForm(last.text)
    /\ last.parsed.command = s_a_colon_b
    /\ last.parsed.target # None
    /\ last.parsed.target # s_API

\* a colon form with nothing after the colon
C2_WitnessEmpty ==
    /\ last.op = "parse"
    /\ last.text = s_frontend \o <<":">>
    /\ ColonForm(last.text)
    /\ last.parsed.command = << >>
    /\ last.parsed.target = s_frontend

\* the k-th name of the i-th project, followed by whitespace, starts the lowercased utterance
PrefixHit(text, i, k) ==
    LET name == IF k = 1 THEN lower(projects[i].name)
                ELSE lower(projects[i].voice_alias[k - 1])
        text_lower == strip(lower(text))
    IN  /\ startswith(text_lower, name)
        /\ Len(text_lower) > Len(name)
        /\ IsSpace(text_lower[Len(name) + 1])

PrefixProject(text, i) == \E k \in 1..(Len(projects[i].voice_alias) + 1) : PrefixHit(text, i, k)

\* the utterance is a prefix form
PrefixForm(text) == \E i \in 1..Len(projects) : PrefixProject(text, i)

\* C3: an utterance (leading or trailing whitespace allowed) that matches no global
\* phrase and no colon form and whose lowercased text begins with a project name or
\* alias followed by whitespace is parsed as a Window command for the first such project
\* in registration order, its action text being exactly the part of the original
\* utterance after the name and the whitespace.
C3_PrefixForm ==
    (last.op = "parse" /\ ~StartsGlobal(last.text) /\ ~ColonForm(last.text)
     /\ PrefixForm(last.text)) =>
        LET i == CHOOSE i \in 1..Len(projects) :
                     PrefixProject(last.text, i)
                     /\ \A j \in 1..(i - 1) : ~PrefixProject(last.text, j)
            k == CHOOSE k \in 1..(Len(projects[i].voice_alias) + 1) :
                     PrefixHit(last.text, i, k)
                     /\ \A m \in 1..(k - 1) : ~PrefixHit(last.text, i, m)
            name == IF k = 1 THEN projects[i].name ELSE projects[i].voice_alias[k - 1]
        IN  last.parsed = [target |-> projects[i].name,
                           command |-> strip(slice_from(strip(last.text), Len(name))),
                           is_global |-> FALSE]

\* C5: find_project_by_voice returns the first project in registration order whose
\* lowercased name or aliases contain the lowercased, trimmed spoken name, and none when
\* no project has it, whatever the casing and surrounding whitespace of the spoken name,
\* also when two projects share a name after lowercasing; never a partial match.
C5_FirstRegistered ==
    last.op = "find" =>
        /\ last.found = Resolved(last.text)
        /\ last.found = Resolved(strip(lower(last.text)))
        /\ last.found > 0 => Answers(last.found, last.text)

\* two projects answer to the spoken name, which is not in its normal form
C5_Witness ==
    /\ last.op = "find"
    /\ Len(projects) = 2
    /\ Answers(1, last.text) /\ Answers(2, last.text)
    /\ last.text # strip(lower(last.text))
    /\ last.found = 1

----------------------------------------------------------------------------
(* The command path's contract *)

\* the calls of the most recent operation that act on a session
SessionOps == {k \in 1..Len(ops) : ops[k].op # "speak"}
\* its invocations of the speech sink
SinkCalls == {k \in 1..Len(ops) : ops[k].op = "speak"}

\* the most recent operation left the controller's state as it found it
StateUnchanged ==
    /\ muted = last.before.muted
    /\ running = last.before.running
    /\ volume = last.before.volume
    /\ windows = last.before.windows

\* the most recent call handled a window command whose target is live
LiveWindowCommand ==
    /\ last.op = "handle"
    /\ ~last.parsed.is_global
    /\ last.parsed.target # None
    /\ InList(last.parsed.target, windows)

\* C4: an utterance in the form of the help text's own example, a project name, a
\* comma, a space and the command, is routed to that project's window with the command
\* as action text and is not reported as an unknown project.
C4_HelpExample ==
    \A i \in 1..Len(projects) :
        (last.op = "handle" /\ ~StartsGlobal(last.text)
         /\ startswith(lower(last.text), lower(projects[i].name) \o <<",", " ">>)
         /\ Len(last.text) > Len(projects[i].name) + 2) =>
            /\ last.parsed.target = projects[i].name
            /\ last.parsed.command = slice_from(last.text, Len(projects[i].name) + 2)
            /\ \A k \in SinkCalls :
                 ops[k].text # <<"I didn't understand which project you meant.">>

\* C6: an utterance that matches no global phrase, no resolvable colon form and no
\* project name followed by whitespace is parsed as an untargeted non-global command
\* carrying the utterance verbatim; handling it invokes the speech sink once (when not
\* muted) with the clarification, performs nothing on any session and changes no
\* controller state.
C6_Unroutable ==
    (last.op = "handle" /\ ~StartsGlobal(last.text) /\ ~ColonForm(last.text)
     /\ ~PrefixForm(last.text)) =>
        /\ last.parsed = [target |-> None, command |-> last.text, is_global |-> FALSE]
        /\ SessionOps = {}
        /\ ~last.before.muted =>
             ops = <<[op |-> "speak", target |-> None, ok |-> TRUE,
                      text |-> <<"I didn't understand which project you meant.">>]>>
        /\ StateUnchanged

\* an unroutable utterance handled while sessions are live and the controller is not muted
C6_Witness ==
    /\ last.op = "handle"
    /\ last.text = s_xyz \o <<" ">> \o s_Run_It
    /\ ~PrefixForm(last.text)
    /\ ~muted
    /\ Len(windows) = 2
    /\ Len(ops) = 1

\* C7: when the utterance resolves to a configured project that has no live window,
\* the controller (not muted) speaks exactly one message naming that project and
\* performs nothing on any session.
C7_NotRunning ==
    (last.op = "handle" /\ ~last.parsed.is_global /\ last.parsed.target # None
     /\ ~InList(last.parsed.target, windows)) =>
        /\ \E i \in 1..Len(projects) : projects[i].name = last.parsed.target
        /\ SessionOps = {}
        /\ ~last.before.muted =>
             ops = <<[op |-> "speak", target |-> None, ok |-> TRUE,
                      text |-> <<"Project ">> \o last.parsed.target
                               \o <<" is not running.">>]>>

\* start() launched one of two projects and a command is spoken to the other
C7_Witness ==
    /\ last.op = "handle"
    /\ Len(projects) = 2
    /\ windows = <<s_frontend>>
    /\ last.parsed.target = s_api
    /\ last.parsed.command = s_stop
    /\ ~muted
    /\ Len(ops) = 1

\* the operation a built-in verb stands for, on the target
BuiltinDone(verb, target) ==
    CASE verb = s_stop ->
           \E k \in SessionOps : ops[k].op = "send_text" /\ ops[k].text = <<ETX>>
                                 /\ ops[k].target = target
      [] verb = s_read ->
           \E k \in SessionOps : ops[k].op = "get_text" /\ ops[k].target = target
      [] verb = s_focus ->
           \E k \in SessionOps : ops[k].op = "focus" /\ ops[k].target = target

\* a custom command with exactly this name (case-insensitively) and a text to send
CustomNamed(c) == {i \in 1..Len(commands) : lower(commands[i].name) = c /\ commands[i].send # << >>}

\* exactly one line is sent to the target: the text and a newline
OneLineSent(target, text) ==
    /\ Cardinality(SessionOps) = 1
    /\ \A k \in SessionOps :
         ops[k].op = "send_text" /\ ops[k].target = target /\ ops[k].text = text \o <<"\n">>

\* C8: for a window command on a live target the action text, lowercased and trimmed,
\* is dispatched by the first rule that matches: a built-in verb (stop, read, focus) runs
\* its built-in operation even when a custom command has the same name; otherwise a
\* custom command of exactly that name sends its configured text as one line; otherwise
\* the action text itself is sent as one line. Only the target receives an operation.
C8_DispatchOrder ==
    LiveWindowCommand =>
        LET c == strip(lower(last.parsed.command))
            target == last.parsed.target
        IN  /\ \A k \in SessionOps : ops[k].target = target
            /\ IF c \in {s_stop, s_read, s_focus}
               THEN BuiltinDone(c, target) /\ Cardinality(SessionOps) = 1
               ELSE IF CustomNamed(c) # {}
               THEN \E i \in CustomNamed(c) : OneLineSent(target, commands[i].send)
               ELSE IF \E i \in 1..Len(commands) : lower(commands[i].name) = c
               THEN TRUE
               ELSE OneLineSent(target, last.parsed.command)

\* C9: 'focus' (in any casing) addressed to a live session calls focus() on it exactly
\* once and sends it no text and no interrupt; 'stop' calls send_interrupt exactly once;
\* 'read' reads the session's text exactly once and speaks its summary.
C9_BuiltinVerbs ==
    LiveWindowCommand =>
        LET c == strip(lower(last.parsed.command))
            target == last.parsed.target
        IN  /\ c = s_focus =>
                 /\ Len(ops) = 1
                 /\ ops[1].op = "focus" /\ ops[1].target = target
            /\ c = s_stop =>
                 /\ Cardinality(SessionOps) = 1
                 /\ ops[1] = [op |-> "send_text", target |-> target, text |-> <<ETX>>,
                              ok |-> ops[1].ok]
            /\ c = s_read =>
                 /\ Cardinality(SessionOps) = 1
                 /\ ops[1].op = "get_text" /\ ops[1].target = target
                 /\ ~last.before.muted =>
                      /\ Len(ops) = 2
                      /\ ops[2].op = "speak"
                      /\ ops[2].text = target \o <<": ">> \o summarize_text(ops[1].text)

\* the message confirms a delivery
Confirmation(text) ==
    \/ text[1] \in {"Sent to ", "Running ", "Sent stop signal to "}
    \/ text = <<"Stopped all sessions.">>

\* C10: a delivery confirmation ('Sent to <project>.', 'Running <command> in <project>.',
\* 'Sent stop signal to <project>.', 'Stopped all sessions.') is spoken only if the send
\* or interrupt it confirms returned true.
C10_ConfirmOnlyDelivered ==
    last.op = "handle" =>
        \A k \in SinkCalls :
            Confirmation(ops[k].text) =>
                \A j \in SessionOps : ops[j].op = "send_text" => ops[j].ok

\* the record of one invocation of the speech sink
Spoken(text) == [op |-> "speak", target |-> None, text |-> text, ok |-> TRUE]

\* the most recent call handled a global command whose phrase is one of these
GlobalHandled(phrases) ==
    /\ last.op = "handle"
    /\ last.parsed.is_global
    /\ last.parsed.command \in phrases

\* C11: each 'mute' or 'unmute' global command flips the muted flag exactly once and
\* invokes the speech sink exactly once with the announcement of the new state, 'Muted.'
\* when the flag became true and 'Unmuted.' when it became false, whatever the flag was.
C11_ToggleAnnounced ==
    GlobalHandled({s_mute, s_unmute}) =>
        /\ muted = ~last.before.muted
        /\ ops = <<Spoken(IF muted THEN <<"Muted.">> ELSE <<"Unmuted.">>)>>

\* 'mute' said while muted: the flag flips to false and the sink, though the controller
\* was muted when the command came, is invoked with 'Unmuted.'
C11_Witness ==
    /\ GlobalHandled({s_mute})
    /\ last.before.muted
    /\ ~muted
    /\ ops = <<Spoken(<<"Unmuted.">>)>>

\* the last character of the text that is not whitespace is '>' or '$': the last
\* non-blank line ends with the prompt
EndsWithPrompt(text) ==
    /\ \E i \in 1..Len(text) : ~IsSpace(text[i])
    /\ LET i == CHOOSE i \in 1..Len(text) :
                    ~IsSpace(text[i]) /\ \A j \in (i + 1)..Len(text) : IsSpace(text[j])
       IN  text[i] \in {">", "$"}

\* the status report for sessions showing these texts
StatusReport(texts) ==
    join(<<". ">>,
         [i \in 1..Len(windows) |->
            windows[i] \o <<" is ">> \o
            (IF EndsWithPrompt(texts[i]) THEN <<"ready">> ELSE <<"busy">>)])

\* C13: the 'status' global command (controller not muted) invokes the speech sink
\* exactly once with a report that names every live session exactly once, in
\* registration order, each labelled 'ready' when the last non-blank line of its current
\* text ends with '>' or '$' and 'busy' otherwise; it sends nothing to any session and
\* changes no controller state.
C13_StatusReport ==
    (GlobalHandled({s_status}) /\ ~last.before.muted) =>
        /\ StateUnchanged
        /\ Len(ops) = Len(windows) + 1
        /\ \A i \in 1..Len(windows) : ops[i].op = "get_text" /\ ops[i].target = windows[i]
        /\ ops[Len(ops)] = Spoken(StatusReport([i \in 1..Len(windows) |-> ops[i].text]))

\* two live sessions, the first at a shell prompt followed by blank lines, the second
\* showing a '> ' that is not at the end of its last line
C13_Witness ==
    /\ GlobalHandled({s_status})
    /\ ~muted
    /\ windows = <<s_frontend, s_api>>
    /\ Len(ops) = 3
    /\ ops[1].text = <<"a", "$", "\n", " ", "\n">>
    /\ ops[2].text = <<"o", "k", "\n", ">", " ", "x">>
    /\ ops[3].text = s_frontend \o <<" is ", "ready", ". ">> \o s_api \o <<" is ", "busy">>

\* the volume after one louder, softer or quieter command, in tenths
VolumeStep ==
    GlobalHandled({s_louder, s_softer, s_quieter}) =>
        /\ volume \in 1..10
        /\ last.before.volume \in 1..10 =>
             volume = IF last.parsed.command = s_louder
                      THEN (IF last.before.volume = 10 THEN 10 ELSE last.before.volume + 1)
                      ELSE (IF last.before.volume = 1 THEN 1 ELSE last.before.volume - 1)

\* C12: counting the volume in tenths, for every configured initial volume between 0.0
\* and 1.0 and after any non-empty sequence of louder, softer and quieter commands the
\* volume is within [0.1, 1.0] (it is there after the first command and no step takes
\* it out again); from a volume inside that range louder raises it by exactly 0.1
\* unless it is already 1.0 and softer or quieter lowers it by exactly 0.1 unless it is
\* already 0.1, in which cases it is unchanged.
C12_VolumeSteps ==
    /\ []VolumeStep
    /\ [][(volume \in 1..10) => (volume' \in 1..10)]_vars
    /\ [][volume' # volume => GlobalHandled({s_louder, s_softer, s_quieter})']_vars

\* louder at the top of the range
C12_Witness ==
    /\ GlobalHandled({s_louder})
    /\ last.before.volume = 10
    /\ volume = 10
    /\ ops = <<Spoken(<<"Volume increased.">>)>>

\* quieter from a configured volume of 0.0, which is below the range
C12_WitnessFloor ==
    /\ GlobalHandled({s_quieter})
    /\ last.before.volume = 0
    /\ volume = 1

----------------------------------------------------------------------------
(* The output monitor's contract *)

\* an earlier iteration stored a snapshot for the session
Stored(snapshots, name) == \E k \in 1..Len(snapshots) : snapshots[k].name = name

\* the stored snapshot of the session, empty when none was stored
Snapshot(snapshots, name) ==
    IF Stored(snapshots, name)
    THEN snapshots[CHOOSE k \in 1..Len(snapshots) : snapshots[k].name = name].output
    ELSE << >>

\* the monitor has run an iteration, and the text of the session was read in it
Polled == poll.name # << >> /\ poll.failure # "read"

\* the snapshot the most recent iteration found for its session
SnapshotBefore == Snapshot(poll.before, poll.name)

\* C16: in every monitor pass and for every session, if the text just read is
\* byte-for-byte identical to that session's stored snapshot, the monitor makes no
\* announcement for that session in that pass and leaves the stored snapshots unchanged;
\* the text read is the snapshot afterwards, so that a completion is announced at most
\* once however many identical reads follow it.
C16_NoChangeNoAnnouncement ==
    Polled =>
        /\ poll.current_output = SnapshotBefore =>
              poll.spoken = << >> /\ _last_outputs = poll.before
        /\ Snapshot(_last_outputs, poll.name) = poll.current_output

\* a session still showing the text whose completion was announced when it was first read
C16_Witness ==
    /\ Polled
    /\ poll.failure = ""
    /\ poll.current_output = t_again
    /\ SnapshotBefore = t_again
    /\ announce_completion
    /\ poll.spoken = << >>
    /\ _last_outputs = poll.before

\* C17: the monitor announces a completion for a session only on a busy-to-ready
\* transition detected between two polls of that session: an earlier pass read and
\* stored a text for that session that was not READY and the text read in the current
\* pass is READY; no completion is announced on the first poll of a session that is
\* already showing its prompt.
C17_OnlyOnTransition ==
    (Polled /\ poll.spoken # << >>) =>
        /\ Stored(poll.before, poll.name)
        /\ ~_is_claude_ready(SnapshotBefore)
        /\ _is_claude_ready(poll.current_output)

\* the old snapshot occurs in the new one at position i
Occurs(old, new, i) ==
    /\ i + Len(old) - 1 <= Len(new)
    /\ \A k \in 1..Len(old) : new[i + k - 1] = old[k]

\* the part of the new snapshot that follows the first occurrence of the old one, the
\* entire new snapshot when the old one is empty or does not occur
Delta(old, new) ==
    IF old # << >> /\ \E i \in 1..Len(new) : Occurs(old, new, i)
    THEN LET i == CHOOSE i \in 1..Len(new) :
                      Occurs(old, new, i) /\ \A j \in 1..(i - 1) : ~Occurs(old, new, j)
         IN  SubSeq(new, i + Len(old), Len(new))
    ELSE new

\* C18: on a completion event, with completion announcements enabled and the
\* controller not muted, the monitor invokes the speech sink exactly once, with the
\* session name followed by the summary of the delta, if and only if the delta is
\* longer than 50 characters or its summary flags an error or a question; otherwise
\* nothing is spoken for that event.
C18_AnnounceIff ==
    (Polled /\ poll.event /\ poll.failure # "summarize" /\ announce_completion
     /\ ~poll.muted) =>
        LET delta == Delta(SnapshotBefore, poll.current_output)
        IN  IF Len(delta) > 50 \/ _has_error(delta) \/ _has_question(delta)
            THEN poll.spoken = <<Spoken(poll.name \o <<": ">> \o summarize_text(delta))>>
            ELSE poll.spoken = << >>

\* a completion whose delta, without error or question, is just longer than 50 characters
C18_Witness ==
    /\ Polled /\ poll.event /\ poll.failure = ""
    /\ SnapshotBefore = t_old
    /\ poll.current_output = t_line(MaxLine)
    /\ Len(poll.new_output) = MaxLine + 3
    /\ ~_has_error(poll.new_output) /\ ~_has_question(poll.new_output)
    /\ Len(poll.spoken) = 1

\* a completion whose delta of 50 characters, without error or question, is not announced
C18_WitnessSilent ==
    /\ Polled /\ poll.event /\ poll.failure = ""
    /\ announce_completion
    /\ Len(poll.new_output) = 50
    /\ poll.spoken = << >>

\* C19: on a completion event the text passed to the summarizer is the delta: when the
\* old snapshot is non-empty and occurs in the new snapshot, exactly the part of the new
\* snapshot that follows the first occurrence of the old one (old 'A\nB\n', new
\* 'A\nB\nC\n> ' gives 'C\n> '); when the old snapshot is empty or does not occur in
\* the new one, the entire new snapshot.
C19_Delta ==
    (Polled /\ poll.event /\ poll.failure # "summarize" /\ announce_completion) =>
        poll.new_output = Delta(SnapshotBefore, poll.current_output)

\* the example: old 'A\nB\n', new 'A\nB\nC\n> '
C19_Witness ==
    /\ Polled /\ poll.event /\ announce_completion
    /\ SnapshotBefore = <<"A", "\n", "B", "\n">>
    /\ poll.current_output = <<"A", "\n", "B", "\n", "C", "\n", ">", " ">>
    /\ poll.new_output = <<"C", "\n", ">", " ">>

\* the old snapshot occurs twice in the new one
C19_WitnessFirst ==
    /\ Polled /\ poll.event /\ announce_completion
    /\ SnapshotBefore = t_old
    /\ poll.current_output = t_again
    /\ poll.new_output = t_old \o <<"F", "a", "i", "l", "e", "d", "\n", ">", " ">>

\* the old snapshot does not occur in the new one
C19_WitnessEntire ==
    /\ Polled /\ poll.event /\ announce_completion
    /\ SnapshotBefore = t_old
    /\ poll.current_output = t_ask
    /\ poll.new_output = t_ask

\* the loop over the sessions went on to the next session, or to the sleep after the last
PassGoesOn ==
    monitor' = IF monitor.i < Len(windows)
               THEN [pc |-> "pass", i |-> monitor.i + 1]
               ELSE [pc |-> "sleep", i |-> 0]

\* the terminal driver's read failed in the most recent iteration
ReadFailed == poll.name # << >> /\ poll.failure \in {"read", "kitty"}

\* the next iteration reads the same session again, successfully, and the session shows
\* the text of its snapshot before the failed read
ReadAgain ==
    /\ ReadFailed
    /\ poll'.name = poll.name /\ poll'.failure = "" /\ poll' # poll
    /\ poll'.current_output = SnapshotBefore

\* C21: a failed read of a session during monitoring is never surfaced to the user: when
\* the terminal driver's read fails for a session in one pass and succeeds in a later
\* pass with the same text the session showed before the failure, the monitor speaks
\* nothing for that session in either pass, and the session's stored snapshot after the
\* failing pass is the one it had before.
C21_FailedReadSilent ==
    /\ [](ReadFailed => (poll.spoken = << >> /\ _last_outputs = poll.before))
    /\ [][ReadAgain => poll'.spoken = << >>]_vars

C20_WitnessSpeak ==
    /\ poll.failure = "speak"
    /\ poll.name = windows[Len(windows)]
    /\ poll.spoken # << >>
    /\ monitor.pc = "sleep"
    /\ running

----------------------------------------------------------------------------
(* The contract of the text functions *)

\* the function has been applied to the text
Applied(function) == function \in applied.done

\* C22: summarize applied to the empty text returns, for every strategy, the canned
\* Summary with text 'No output', hasError false, hasQuestion false, isComplete false
\* and rawLength 0, without running any pattern search.
C22_EmptyCanned ==
    (Applied("summarize") /\ applied.text = << >>) =>
        applied.summary =
            [text |-> <<"N", "o", " ", "o", "u", "t", "p", "u", "t">>, has_error |-> FALSE, has_question |-> FALSE,
             is_complete |-> FALSE, raw_length |-> 0]

\* C23: for every session text, the readiness predicate of the output monitor
\* (_is_claude_ready) gives the same answer as the session's busy check on that text:
\* the monitor considers the text READY exactly when is_busy would return false, that
\* is exactly when the last non-blank line ends with '>' or '$' (last line '> ' is
\* READY, last line 'Building...' is BUSY).
C23_SameReadiness ==
    (Applied("is_busy") /\ Applied("_is_claude_ready")) =>
        /\ applied.ready = ~applied.busy
        /\ applied.ready = EndsWithPrompt(applied.text)

\* C24: with strategy smart, for every non-empty input text, including texts of four
\* or fewer non-blank lines for which the smart summary falls back to first_last, the
\* summary text returned by summarize has at most max_spoken_length whitespace-separated
\* words (the ellipsis marker being attached to the last kept word).
C24_SmartTruncated ==
    (Applied("summarize") /\ applied.config.strategy = "smart" /\ applied.text # << >>) =>
        Len(split_words(applied.summary.text)) <= applied.config.max_spoken_length

----------------------------------------------------------------------------
(* The contract of the command path and the output monitor together *)

\* the sessions
Sessions == {windows[i] : i \in 1..Len(windows)}

\* the step is an iteration of the monitor that writes the snapshot of the session it
\* read, and of no other, with the text it read, which differs from the old snapshot
WritesOwnSnapshot ==
    /\ monitor.pc = "pass"
    /\ poll'.name = windows[monitor.i]
    /\ poll'.current_output # Snapshot(_last_outputs, poll'.name)
    /\ Snapshot(_last_outputs', poll'.name) = poll'.current_output
    /\ \A name \in Sessions \ {poll'.name} :
         /\ Stored(_last_outputs', name) = Stored(_last_outputs, name)
         /\ Snapshot(_last_outputs', name) = Snapshot(_last_outputs, name)

\* C25: the per-session snapshot map is written only by the output monitor: handling
\* any utterance on the command path (global commands including status, stop all and
\* shutdown, window commands including read, stop, focus and sends) leaves every
\* session's stored snapshot unchanged, and a monitor pass changes the stored snapshot
\* of a session only when the text it just read for that session differs from it, and
\* then only that session's entry.
C25_MonitorSoleWriter ==
    /\ [][(last' # last /\ last'.op = "handle") => _last_outputs' = _last_outputs]_vars
    /\ [][_last_outputs' # _last_outputs => WritesOwnSnapshot]_vars

\* 'read' on the command path gets a text that is not the stored snapshot of the session
\* and the two snapshots stay as the monitor stored them
C25_Witness ==
    /\ LiveWindowCommand
    /\ last.parsed.command = s_read
    /\ Len(_last_outputs) = 2
    /\ ops[1].op = "get_text"
    /\ ops[1].text # Snapshot(_last_outputs, last.parsed.target)

\* the monitor replaced the snapshot of the second of two sessions
C25_WitnessPass ==
    /\ Len(poll.before) = 2
    /\ poll.name = windows[2]
    /\ poll.changed
    /\ Snapshot(_last_outputs, windows[1]) = Snapshot(poll.before, windows[1])
    /\ Snapshot(_last_outputs, windows[2]) # Snapshot(poll.before, windows[2])

\* the session operations of a command handled while muted are those of the command
MutedOperations ==
    /\ LiveWindowCommand =>
         LET c == strip(lower(last.parsed.command))
             target == last.parsed.target
         IN  /\ c = s_stop => ops = <<send_interrupt(target, ops[1].ok)>>
             /\ c = s_read => Len(ops) = 1 /\ ops[1].op = "get_text" /\ ops[1].target = target
             /\ (c \notin {s_stop, s_read, s_focus} /\ custom_from(c, 1) = 0) =>
                  OneLineSent(target, last.parsed.command)
    /\ GlobalHandled({s_stop_all}) =>
         /\ Len(ops) = Len(windows)
         /\ \A i \in 1..Len(windows) : ops[i] = send_interrupt(windows[i], ops[i].ok)
    /\ GlobalHandled({s_status}) =>
         /\ Len(ops) = Len(windows)
         /\ \A i \in 1..Len(windows) : ops[i].op = "get_text" /\ ops[i].target = windows[i]

C28_WitnessSend ==
    /\ last.before.muted /\ muted
    /\ LiveWindowCommand
    /\ OneLineSent(s_frontend, s_Run_It)
    /\ ops[1].ok
    /\ Len(ops) = 1

----------------------------------------------------------------------------
(* The contract of the hotkey path *)

\* C26: voice commands are serialized on the hotkey path: for any sequence of press and
\* release events (including repeated press events while the key is held), at most one
\* recording is active at a time, each hold of the hotkey yields at most one call of the
\* transcription handler, two calls of the transcription handler never overlap, and a
\* new recording does not start until the handler call triggered by the previous
\* release has returned.
C26_Serialized ==
    /\ [](/\ ptt.streams <= 1
          /\ \A h \in 1..MaxHolds : ptt.calls[h] <= 1
          /\ ptt.handling <= 1)
    /\ [][(ptt'.streams > ptt.streams \/ (ptt'._recording /\ ~ptt._recording)) =>
             (ptt.handling = 0 /\ ptt'.handling = 0)]_vars

\* the hotkey is pressed again while the handler of the first hold is still running:
\* the press waits and nothing is recorded
C26_Witness ==
    /\ ptt.handling = 1
    /\ ptt.calls[1] = 1
    /\ ptt.events # << >>
    /\ Head(ptt.events) = [kind |-> "press", key |-> trigger_key, hold |-> 2]
    /\ required_modifiers \subseteq ptt.current_modifiers
    /\ ~ptt._recording

\* a repeated press of the held hotkey reaches the listener while it records
C26_WitnessRepeat ==
    /\ ptt._recording /\ ptt._key_pressed /\ ptt.streams = 1
    /\ ptt.listener = "idle"
    /\ ptt.events # << >>
    /\ Head(ptt.events) = [kind |-> "press", key |-> trigger_key, hold |-> ptt.holds]

\* the second hold has been recorded and handled after the first
C26_WitnessSecond ==
    /\ ptt.calls[1] = 1 /\ ptt.calls[2] = 1
    /\ ptt.handling = 0

----------------------------------------------------------------------------
(* The contract of the threads and of the speech sink *)

\* C14: after a 'shutdown' or 'shut down' command has been handled while run() is
\* active, the running flag is false, the output monitor finishes at most its current
\* pass and exits, and run() leaves its wait loop, calls stop(), which stops the hotkey
\* handler and sends a close request to every live session, and returns.
C14_ShutdownEnds ==
    GlobalHandled({s_shutdown, s_shut_down}) ~>
        (~running /\ monitor.pc = "done" /\ pc = "stopped")

\* C15: a call of the speech sink made while an earlier call is in progress stops the
\* earlier playback and plays its own utterance: no call waits behind another one, so
\* speak calls are never queued.
C15_NeverQueued ==
    \A t \in Threads : speaking[t] = "speak" => _lock = ""

\* C27: every call of VoiceOutputHandler.speak with a non-empty text eventually
\* returns: the call never blocks forever waiting for the handler's own lock, whether
\* it is made by a single thread or concurrently from the command path and the output
\* monitor, so the callers (the ready announcement of start, the command confirmations,
\* the completion announcements, the farewell of stop) always proceed.
C27_SpeakReturns ==
    \A t \in Threads : (speaking[t] = "speak") ~> (speaking[t] = "none")

----------------------------------------------------------------------------
(* The contract of the mute and shutdown commands *)

\* C29: after the utterance 'unmute' has been handled the controller is not muted, and
\* after the utterance 'mute' has been handled it is muted, whatever the muted flag was
\* before the command: 'mute' said twice in a row leaves the controller muted and
\* 'unmute' said while already unmuted leaves it unmuted.
C29_MuteSets ==
    /\ GlobalHandled({s_mute}) => muted
    /\ GlobalHandled({s_unmute}) => ~muted

\* C30: a shutdown command is never lost: once a 'shutdown' utterance has been handled
\* at any time after the hotkey handler was started, the running flag is never set back
\* to true; here for the step that follows the handling of the command.
C30_ShutdownKept ==
    [][GlobalHandled({s_shutdown, s_shut_down}) => ~running']_vars

====
